---- MODULE Spec2Model ----
(***************************************************************************)
(* A model of starlink_taphome_bridge: the MQTT bridge session             *)
(* (mqtt_bridge.py), the two control loops and the shutdown sequence       *)
(* (cli.py), and the schema-driven command applier (starlink.py).          *)
(*                                                                         *)
(* Text is modelled as a sequence of tokens.  A token is either one of the *)
(* separator characters the code looks at ("." "/" "_" "-" " ") or a       *)
(* maximal run of other characters, so replace(), split(), strip(),        *)
(* startswith() and endswith() act on tokens exactly as the Python calls   *)
(* act on the characters.  An optional value (X | None) is a sequence of   *)
(* length at most one: <<>> is None and <<x>> is the value x.              *)
(***************************************************************************)
EXTENDS Integers, Sequences, FiniteSets, TLC

VARIABLES
    config,          \* RunConfig / MqttConfig, fixed at start-up
    onCommand,       \* the callback handed to MqttBridge as on_command
    stopEvent,       \* stop_event of _run_bridge
    connPc,          \* position of connect_loop
    pollPc,          \* position of poll_loop
    mainPc,          \* position of _run_bridge after gather()
    isConnected,     \* self._client.is_connected
    connectedEv,     \* MqttBridge._connected
    disconnectedEv,  \* MqttBridge._disconnected
    lastPayloads,    \* MqttBridge._last_payloads (insertion-ordered dict)
    warnedFilters,   \* MqttBridge._warned_filters
    sent,            \* the messages the last step handed to self._client.publish
    delivered,       \* the last message handed to the client, for each topic
    subscribed,      \* the subscribe calls made on the current connection
    pendingOnline,   \* publish_status("online") tasks created and not yet run
    commands,        \* the _handle_command tasks, in order of arrival
    mqttBackoff,     \* mqtt_backoff of _run_bridge
    pollBackoff,     \* poll_backoff of poll_loop
    connDelay,       \* delay of connect_loop while it sleeps, else 0
    pollTimeout,     \* timeout of poll_loop while it waits or exits, else 0
    deviceRequests,  \* the set-config requests submitted to the device
    applyIn,         \* the arguments of a call of set_field or _parse_enum
    applyOut,        \* what that call returned
    connectPubs,     \* history: the topics of the messages that the _on_connect
                     \* of the current connection has caused
    counters         \* history: decodable messages received, next_delay calls
                     \* since the last reset, (dropped) whether a telemetry
                     \* publish has replaced a payload that was never handed to
                     \* the client, since the connection before the current
                     \* one, and (undecodable) whether a message that is not
                     \* UTF-8 has arrived before any decodable one ("dropped")
                     \* and a decodable one after it ("followed"), and
                     \* (racing) whether a stop signal has arrived while a
                     \* publish_status("online") task had not yet run

vars == << config, onCommand, stopEvent, connPc, pollPc, mainPc, isConnected,
           connectedEv, disconnectedEv, lastPayloads, warnedFilters, sent,
           delivered, subscribed, pendingOnline, commands, mqttBackoff, pollBackoff,
           connDelay, pollTimeout, deviceRequests, applyIn, applyOut,
           connectPubs, counters >>

connVars == << isConnected, connectedEv, disconnectedEv, subscribed, pendingOnline >>
cacheVars == << lastPayloads, warnedFilters, delivered >>
loopVars == << stopEvent, connPc, pollPc, mainPc >>
backoffVars == << mqttBackoff, pollBackoff, connDelay, pollTimeout >>
applyVars == << applyIn, applyOut >>

-----------------------------------------------------------------------------
(* Bounds of the model.                                                    *)

MaxMessages == 1
MaxBackoffCalls == 8
MaxInFlight == 2

-----------------------------------------------------------------------------
(* Text and dictionaries.                                                  *)

None == << >>
Some(x) == << x >>

Min(a, b) == IF a <= b THEN a ELSE b

Replace(s, old, new) == [i \in 1..Len(s) |-> IF s[i] = old THEN new ELSE s[i]]

StartsWith(s, p) == Len(p) <= Len(s) /\ SubSeq(s, 1, Len(p)) = p

EndsWith(s, p) == Len(p) <= Len(s) /\ SubSeq(s, Len(s) - Len(p) + 1, Len(s)) = p

RECURSIVE LStrip(_, _)
LStrip(s, chars) ==
    IF s # << >> /\ s[1] \in chars THEN LStrip(Tail(s), chars) ELSE s

RECURSIVE RStrip(_, _)
RStrip(s, chars) ==
    IF s # << >> /\ s[Len(s)] \in chars
    THEN RStrip(SubSeq(s, 1, Len(s) - 1), chars)
    ELSE s

\* str.strip(chars); str.strip() is Strip(s, {" "})
Strip(s, chars) == RStrip(LStrip(s, chars), chars)

\* str.split(sep) for a one-character separator
RECURSIVE SplitFrom(_, _, _, _)
SplitFrom(s, sep, i, cur) ==
    IF i > Len(s) THEN << cur >>
    ELSE IF s[i] = sep THEN << cur >> \o SplitFrom(s, sep, i + 1, << >>)
    ELSE SplitFrom(s, sep, i + 1, Append(cur, s[i]))

Split(s, sep) == SplitFrom(s, sep, 1, << >>)

RECURSIVE Flat(_)
Flat(ss) == IF ss = << >> THEN << >> ELSE Head(ss) \o Flat(Tail(ss))

\* A Python dict: a sequence of [k, v] entries in insertion order.
DictHas(d, k) == \E i \in 1..Len(d) : d[i].k = k

DictGet(d, k) == d[CHOOSE i \in 1..Len(d) : d[i].k = k].v

DictSet(d, k, v) ==
    IF DictHas(d, k)
    THEN [i \in 1..Len(d) |-> IF d[i].k = k THEN [k |-> k, v |-> v] ELSE d[i]]
    ELSE Append(d, [k |-> k, v |-> v])

RECURSIVE DictUpdate(_, _)
DictUpdate(d, other) ==
    IF other = << >> THEN d
    ELSE DictUpdate(DictSet(d, Head(other).k, Head(other).v), Tail(other))

DictKeys(d) == {d[i].k : i \in 1..Len(d)}

\* Values of a telemetry dict.
IntV(n) == [kind |-> "int", n |-> n]
StrV(s) == [kind |-> "str", s |-> s]
DictV(items) == [kind |-> "dict", items |-> items]
ListV(elems) == [kind |-> "list", elems |-> elems]
BoolV(b) == [kind |-> "bool", b |-> b]
BytesV(s) == [kind |-> "bytes", s |-> s]
FloatV(tenths) == [kind |-> "float", tenths |-> tenths]
NoneV == [kind |-> "none"]

Digits == << "0", "1", "2", "3", "4", "5", "6", "7", "8", "9" >>

\* str(n) for an int
RECURSIVE NatStr(_)
NatStr(n) == IF n < 10 THEN Digits[n + 1] ELSE NatStr(n \div 10) \o Digits[(n % 10) + 1]

IntStr(n) == IF n < 0 THEN << "-", NatStr(-n) >> ELSE << NatStr(n) >>

\* str(value) for a scalar; a float is held in tenths
PyStr(v) ==
    CASE v.kind = "int" -> IntStr(v.n)
      [] v.kind = "str" -> v.s
      [] v.kind = "bool" -> IF v.b THEN << "True" >> ELSE << "False" >>
      [] v.kind = "float" -> IntStr(v.tenths \div 10) \o << ".", Digits[(v.tenths % 10) + 1] >>
      [] v.kind = "none" -> << "None" >>

\* json.dumps(value, separators=(",", ":"))
RECURSIVE JsonDumps(_)
RECURSIVE JsonItems(_, _)
JsonDumps(v) ==
    CASE v.kind = "int" -> IntStr(v.n)
      [] v.kind = "str" -> << "\"" >> \o v.s \o << "\"" >>
      [] v.kind = "bool" -> IF v.b THEN << "true" >> ELSE << "false" >>
      [] v.kind = "none" -> << "null" >>
      [] v.kind = "dict" -> << "{" >> \o JsonItems(v.items, TRUE) \o << "}" >>
      [] v.kind = "list" -> << "[" >> \o JsonItems(v.elems, FALSE) \o << "]" >>
JsonItems(items, keyed) ==
    IF items = << >> THEN << >>
    ELSE LET one == IF keyed
                    THEN << "\"" >> \o Head(items).k \o << "\"", ":" >>
                         \o JsonDumps(Head(items).v)
                    ELSE JsonDumps(Head(items))
         IN  IF Len(items) = 1 THEN one
             ELSE one \o << "," >> \o JsonItems(Tail(items), keyed)

-----------------------------------------------------------------------------
(* mqtt_bridge.py: Topics.                                                 *)

TopicPrefix == << "taphome", "/", "starlink" >>

TopicStatus == TopicPrefix \o << "/", "status" >>

TopicAllFields == TopicPrefix \o << "/", "all" >>

TopicField(path) == TopicPrefix \o << "/" >> \o path

TopicWildcard == TopicPrefix \o << "/", "#" >>

TopicFieldSet(path) == TopicField(path) \o << "/", "set" >>

TopicFieldAck(path) == TopicField(path) \o << "/", "ack" >>

-----------------------------------------------------------------------------
(* mqtt_bridge.py: Backoff.  A Backoff object is a record.                 *)

BackoffNew(minimum, maximum) ==
    [minimum |-> minimum, maximum |-> maximum, current |-> minimum]

\* a reset that leaves the delay where it is
BackoffResetKeeps(b) == b

BackoffReset(b) == [b EXCEPT !.current = b.minimum]

\* a next_delay that doubles without looking at the maximum
BackoffNextDelayUncapped(b) ==
    [delay |-> b.current, backoff |-> [b EXCEPT !.current = b.current * 2]]

\* next_delay returns the delay and leaves the object changed
BackoffNextDelay(b) ==
    [delay |-> b.current,
     backoff |-> [b EXCEPT !.current = Min(b.current * 2, b.maximum)]]

-----------------------------------------------------------------------------
(* mqtt_bridge.py: MqttBridge.  The operators that publish take and return *)
(* the pair b = [cache, transport] of _last_payloads and the messages the  *)
(* handler has handed to the client so far, so that a handler that         *)
(* publishes several times is one step.  conn is                           *)
(* self._client.is_connected.                                              *)

Msg(topic, payload, qos, retain) ==
    [topic |-> topic, payload |-> payload, qos |-> qos, retain |-> retain]

Entry(payload, qos, retain) == [payload |-> payload, qos |-> qos, retain |-> retain]

\* a publish that keeps the payload only when it can send it
PublishWhenConnected(b, conn, topic, payload, retainArg) ==
    LET retain_flag == IF retainArg = None THEN config.retain ELSE retainArg[1]
    IN  IF ~conn THEN b
        ELSE [cache |-> DictSet(b.cache, topic, Entry(payload, config.qos, retain_flag)),
              transport |-> Append(b.transport,
                                   Msg(topic, payload, config.qos, retain_flag))]

Publish(b, conn, topic, payload, retainArg) ==
    LET retain_flag == IF retainArg = None THEN config.retain ELSE retainArg[1]
        cache == DictSet(b.cache, topic, Entry(payload, config.qos, retain_flag))
    IN  IF ~conn
        THEN [cache |-> cache, transport |-> b.transport]
        ELSE [cache |-> cache,
              transport |-> Append(b.transport,
                                   Msg(topic, payload, config.qos, retain_flag))]

\* a status published with the configured retain flag
PublishStatusAsConfigured(b, conn, status) == Publish(b, conn, TopicStatus, status, None)

PublishStatus(b, conn, status) == Publish(b, conn, TopicStatus, status, Some(TRUE))

\* payload of _publish_if_value
ValuePayload(value) ==
    IF value.kind \in {"dict", "list"} THEN JsonDumps(value)
    ELSE IF value.kind = "none" THEN << >>
    ELSE PyStr(value)

\* a _publish_if_value that publishes a missing value whatever the setting
PublishIfValueAlways(b, conn, topic, value) ==
    LET payload == ValuePayload(value)
    IN  [cache |-> DictSet(b.cache, topic, Entry(payload, config.qos, config.retain)),
         transport |-> IF conn
                       THEN Append(b.transport,
                                   Msg(topic, payload, config.qos, config.retain))
                       ELSE b.transport]

PublishIfValue(b, conn, topic, value) ==
    IF value.kind = "none" /\ ~config.publish_missing THEN b
    ELSE LET payload == ValuePayload(value)
             handed == IF conn
                       THEN Append(b.transport,
                                   Msg(topic, payload, config.qos, config.retain))
                       ELSE b.transport
         IN  [cache |-> DictSet(b.cache, topic,
                                Entry(payload, config.qos, config.retain)),
              transport |-> handed]

\* a flattening that leaves out a dict with nothing in it
RECURSIVE FlattenFieldsOmitEmpty(_, _)
FlattenFieldsOmitEmpty(data, prefix) ==
    IF data = << >> THEN << >>
    ELSE LET key == Head(data).k
             value == Head(data).v
             path == IF prefix # << >> THEN prefix \o << "." >> \o key ELSE key
             here == IF value.kind = "dict"
                     THEN FlattenFieldsOmitEmpty(value.items, path)
                     ELSE << [k |-> path, v |-> value] >>
         IN  DictUpdate(here, FlattenFieldsOmitEmpty(Tail(data), prefix))

RECURSIVE FlattenFields(_, _)
FlattenFields(data, prefix) ==
    IF data = << >> THEN << >>
    ELSE LET key == Head(data).k
             value == Head(data).v
             path == IF prefix # << >> THEN prefix \o << "." >> \o key ELSE key
             nested == FlattenFields(value.items, path)
             here == IF value.kind = "dict"
                     THEN IF nested # << >> THEN nested
                          ELSE << [k |-> path, v |-> DictV(<< >>)] >>
                     ELSE << [k |-> path, v |-> value] >>
         IN  DictUpdate(here, FlattenFields(Tail(data), prefix))

NormalizeFilter(value) == Strip(Replace(Strip(value, {" "}), "/", "."), {"."})

\* self._field_filters
FieldFilters ==
    LET given == SelectSeq(config.field_filters, LAMBDA v : v # << >>)
    IN  [i \in 1..Len(given) |-> NormalizeFilter(given[i])]

\* a filter that lets every path through
ShouldPublishAll(path) == TRUE

ShouldPublish(path) ==
    IF FieldFilters = << >> THEN TRUE
    ELSE \E i \in 1..Len(FieldFilters) :
            \/ path = FieldFilters[i]
            \/ StartsWith(path, FieldFilters[i] \o << "." >>)

\* the value of self._warned_filters after _warn_unknown_filters(flat_fields)
WarnUnknownFilters(warned, flat_fields) ==
    warned \cup
    {FieldFilters[i] : i \in
        {j \in 1..Len(FieldFilters) :
            ~ \E n \in 1..Len(flat_fields) :
                \/ flat_fields[n].k = FieldFilters[j]
                \/ StartsWith(flat_fields[n].k, FieldFilters[j] \o << "." >>)}}

RECURSIVE PublishFields(_, _, _)
PublishFields(b, conn, fields) ==
    IF fields = << >> THEN b
    ELSE PublishFields(
            PublishIfValue(b, conn,
                           TopicField(Replace(Head(fields).k, ".", "/")),
                           Head(fields).v),
            conn, Tail(fields))

\* filtered_fields of publish_telemetry
FilteredFields(telemetry) ==
    SelectSeq(FlattenFields(telemetry, << >>), LAMBDA kv : ShouldPublish(kv.k))

\* int(time.time()) is not modelled: the timestamp is the token "<now>"
AllPayload(fields) ==
    JsonDumps(DictV(<< [k |-> << "fields" >>, v |-> DictV(fields)],
                       [k |-> << "timestamp" >>, v |-> StrV(<< "<now>" >>)] >>))

PublishTelemetry(b, conn, telemetry) ==
    LET filtered_fields == FilteredFields(telemetry)
        leaves == PublishFields(b, conn, filtered_fields)
    IN  IF config.publish_json
        THEN Publish(leaves, conn, TopicAllFields, AllPayload(filtered_fields), None)
        ELSE leaves

BuildCommandSubscriptions ==
    IF FieldFilters = << >> THEN << TopicWildcard >>
    ELSE [i \in 1..Len(FieldFilters) |->
            TopicFieldSet(Replace(FieldFilters[i], ".", "/"))]

\* an _extract_set_field that takes every topic under the prefix
ExtractSetFieldAnyTopic(topic) ==
    LET prefix == TopicPrefix \o << "/" >>
        path == Strip(SubSeq(topic, Len(prefix) + 1, Len(topic)), {"/"})
    IN  IF ~StartsWith(topic, prefix) \/ path = << >> THEN None
        ELSE Some(Replace(path, "/", "."))

ExtractSetField(topic) ==
    LET prefix == TopicPrefix \o << "/" >>
        path == Strip(SubSeq(topic, Len(prefix) + 1, Len(topic) - 2), {"/"})
    IN  IF ~StartsWith(topic, prefix) \/ ~EndsWith(topic, << "/", "set" >>) THEN None
        ELSE IF path = << >> THEN None
        ELSE Some(Replace(path, "/", "."))

\* "qos or 0"
QosOrZero(qos) == IF qos = 0 THEN 0 ELSE qos

\* a replay that drops the stored qos
RepublishCachedAtQosZero(cache) ==
    [i \in 1..Len(cache) |->
        Msg(cache[i].k, cache[i].v.payload, 0, cache[i].v.retain)]

\* a replay of the retained entries only
RepublishRetained(cache) ==
    LET kept == SelectSeq(cache, LAMBDA e : e.v.retain)
    IN  [i \in 1..Len(kept) |->
            Msg(kept[i].k, kept[i].v.payload, QosOrZero(kept[i].v.qos), kept[i].v.retain)]

\* the messages _republish_cached hands to the client
RepublishCached(cache) ==
    [i \in 1..Len(cache) |->
        Msg(cache[i].k, cache[i].v.payload, QosOrZero(cache[i].v.qos),
            cache[i].v.retain)]

OptV(opt) == IF opt = None THEN NoneV ELSE StrV(opt[1])

\* the payload of publish_ack; int(time.time()) is the token "<now>"
AckPayload(field_path, result) ==
    JsonDumps(DictV(<< [k |-> << "field" >>, v |-> StrV(field_path)],
                       [k |-> << "requested" >>, v |-> StrV(result.requested)],
                       [k |-> << "applied" >>, v |-> OptV(result.applied)],
                       [k |-> << "success" >>, v |-> BoolV(result.success)],
                       [k |-> << "message" >>, v |-> OptV(result.message)],
                       [k |-> << "timestamp" >>, v |-> StrV(<< "<now>" >>)] >>))

PublishAck(b, conn, field_path, result) ==
    Publish(b, conn, TopicFieldAck(Replace(field_path, ".", "/")),
            AckPayload(field_path, result), None)

-----------------------------------------------------------------------------
(* models.py: AppliedResult.                                               *)

AppliedResult(requested, applied, success, message) ==
    [requested |-> requested, applied |-> applied, success |-> success,
     message |-> message]

-----------------------------------------------------------------------------
(* The schema the applier introspects.  DishConfig is defined outside the  *)
(* repository; this is a schema with one field of each shape the code      *)
(* distinguishes.  An enum definition is the sequence of its               *)
(* [name, number] entries in declaration order.                            *)

Name_dish_config == << "dish", "_", "config" >>
Name_snow_melt_mode == << "snow", "_", "melt", "_", "mode" >>
Name_power_save_mode == << "power", "_", "save", "_", "mode" >>
Name_swupdate_reboot_hour == << "swupdate", "_", "reboot", "_", "hour" >>
Name_device_state == << "device", "_", "state" >>
Name_uptime_s == << "uptime", "_", "s" >>

EnumEntry(name, number) == [name |-> name, number |-> number]

SnowMeltMode ==
    << EnumEntry(<< "AUTO" >>, 0),
       EnumEntry(<< "ALWAYS", "_", "ON" >>, 1),
       EnumEntry(<< "ALWAYS", "_", "OFF" >>, 2) >>

Field(name, label, cpp_type, type, ref) ==
    [name |-> name, label |-> label, cpp_type |-> cpp_type, type |-> type,
     ref |-> ref]

\* DESCRIPTOR.fields of a message type
MessageFields(message_type) ==
    CASE message_type = "DishConfig" ->
            << Field(Name_snow_melt_mode, "optional", "enum", "TYPE_ENUM", SnowMeltMode),
               Field(<< "apply", "_" >> \o Name_snow_melt_mode, "optional", "bool",
                     "TYPE_BOOL", << >>),
               Field(Name_power_save_mode, "optional", "bool", "TYPE_BOOL", << >>),
               Field(<< "apply", "_" >> \o Name_power_save_mode, "optional", "bool",
                     "TYPE_BOOL", << >>),
               Field(Name_swupdate_reboot_hour, "optional", "int", "TYPE_UINT32", << >>),
               Field(<< "schedule" >>, "optional", "message", "TYPE_MESSAGE", "Schedule"),
               Field(<< "networks" >>, "repeated", "message", "TYPE_MESSAGE", "Schedule") >>
      [] message_type = "Schedule" ->
            << Field(<< "offset" >>, "optional", "int", "TYPE_INT32", << >>),
               Field(<< "ratio" >>, "optional", "float", "TYPE_FLOAT", << >>),
               Field(<< "label" >>, "optional", "string", "TYPE_STRING", << >>),
               Field(<< "token" >>, "optional", "string", "TYPE_BYTES", << >>),
               Field(<< "days" >>, "repeated", "int", "TYPE_INT32", << >>) >>
      [] message_type = "DishGetStatus" ->
            << Field(Name_device_state, "optional", "message", "TYPE_MESSAGE",
                     "DeviceState"),
               Field(<< "alerts" >>, "optional", "message", "TYPE_MESSAGE", "Alerts"),
               Field(<< "outages" >>, "repeated", "message", "TYPE_MESSAGE", "Alerts") >>
      [] message_type = "DeviceState" ->
            << Field(Name_uptime_s, "optional", "int", "TYPE_UINT64", << >>),
               Field(<< "boot" >>, "optional", "message", "TYPE_MESSAGE", "BootInfo") >>
      [] message_type = "BootInfo" ->
            << Field(<< "count" >>, "optional", "int", "TYPE_INT32", << >>),
               Field(<< "reason" >>, "optional", "message", "TYPE_MESSAGE", "Alerts") >>
      [] message_type = "Alerts" -> << >>

\* DESCRIPTOR.fields_by_name.get(name)
FieldsByNameGet(message_type, name) ==
    LET fields == MessageFields(message_type)
        hits == {i \in 1..Len(fields) : fields[i].name = name}
    IN  IF hits = {} THEN None ELSE Some(fields[CHOOSE i \in hits : TRUE])

-----------------------------------------------------------------------------
(* starlink.py: StarlinkGrpcClient.  A call that may raise returns         *)
(* [ok |-> TRUE, value |-> v] or [ok |-> FALSE, exc |-> e]; an exception   *)
(* is [type, text] with code and details for a gRPC error.                 *)

Return(v) == [ok |-> TRUE, value |-> v]

Raise(type, text) == [ok |-> FALSE, exc |-> [type |-> type, text |-> text]]

UpperTable ==
    [t \in {"on", "off", "auto", "always", "x", "yes", "no", "true", "false",
            "On", "Auto", "TRUE"} |->
        CASE t \in {"on", "On"} -> "ON"
          [] t = "off" -> "OFF"
          [] t \in {"auto", "Auto"} -> "AUTO"
          [] t = "always" -> "ALWAYS"
          [] t = "x" -> "X"
          [] t = "yes" -> "YES"
          [] t = "no" -> "NO"
          [] t \in {"true", "TRUE"} -> "TRUE"
          [] t = "false" -> "FALSE"]

\* str.upper(): tokens without lower-case letters are their own upper case
Upper(s) == [i \in 1..Len(s) |->
                IF s[i] \in DOMAIN UpperTable THEN UpperTable[s[i]] ELSE s[i]]

LowerTable ==
    [t \in {"ON", "OFF", "AUTO", "ALWAYS", "X", "YES", "NO", "TRUE", "FALSE",
            "On", "Auto", "True", "False"} |->
        CASE t \in {"ON", "On"} -> "on"
          [] t = "OFF" -> "off"
          [] t \in {"AUTO", "Auto"} -> "auto"
          [] t = "ALWAYS" -> "always"
          [] t = "X" -> "x"
          [] t = "YES" -> "yes"
          [] t = "NO" -> "no"
          [] t \in {"TRUE", "True"} -> "true"
          [] t \in {"FALSE", "False"} -> "false"]

\* str.lower()
Lower(s) == [i \in 1..Len(s) |->
                IF s[i] \in DOMAIN LowerTable THEN LowerTable[s[i]] ELSE s[i]]

Numerals == [t \in {"0", "1", "2", "3", "5", "7", "007", "42"} |->
                CASE t = "0" -> 0 [] t = "1" -> 1 [] t = "2" -> 2 [] t = "3" -> 3
                  [] t = "5" -> 5 [] t \in {"7", "007"} -> 7 [] t = "42" -> 42]

\* int(text, 10): None stands for ValueError.  Python also takes surrounding
\* blanks and a sign; digit groups joined by "_" are not among the inputs.
ParseInt(text) ==
    LET Parsed(t) ==
            IF Len(t) = 1 /\ t[1] \in DOMAIN Numerals THEN Some(Numerals[t[1]])
            ELSE IF Len(t) = 2 /\ t[1] = "-" /\ t[2] \in DOMAIN Numerals
            THEN Some(0 - Numerals[t[2]])
            ELSE None
    IN  Parsed(Strip(text, {" "}))

\* float(text), in tenths: None stands for ValueError
ParseFloat(text) ==
    LET Float(t, whole) ==
            IF whole # None THEN Some(10 * whole[1])
            ELSE IF Len(t) = 3 /\ t[2] = "." /\ t[1] \in DOMAIN Numerals
                    /\ t[3] \in {"0", "1", "2", "3", "5", "7"}
            THEN Some(10 * Numerals[t[1]] + Numerals[t[3]])
            ELSE None
    IN  Float(Strip(text, {" "}), ParseInt(text))

RECURSIVE Join(_, _)
Join(names, sep) ==
    IF names = << >> THEN << >>
    ELSE IF Len(names) = 1 THEN names[1]
    ELSE names[1] \o sep \o Join(Tail(names), sep)

EnumNames(enum_type) == [i \in 1..Len(enum_type) |-> enum_type[i].name]

\* a matcher that takes the first name with the suffix
ParseEnumFirstSuffix(field, value) ==
    LET First(exact, suffix_matches) ==
            IF exact # << >> THEN Return(exact[1].number)
            ELSE IF suffix_matches # << >> THEN Return(suffix_matches[1].number)
            ELSE Raise("StarlinkClientError",
                       << "Invalid enum value for " >> \o field.name \o << ": " >>
                       \o value)
        Match(normalized) ==
            First(SelectSeq(field.ref, LAMBDA e : e.name = normalized),
                  SelectSeq(field.ref,
                            LAMBDA e : EndsWith(e.name, << "_" >> \o normalized)))
    IN  Match(Replace(Replace(Upper(value), "-", "_"), " ", "_"))

\* a matcher that reads the text as a number before it looks at suffixes
ParseEnumNumberFirst(field, value) ==
    LET Known(enum_number) ==
            /\ enum_number # None
            /\ \E i \in 1..Len(field.ref) : field.ref[i].number = enum_number[1]
        Pick(exact, suffix_matches, enum_number) ==
            IF exact # << >> THEN Return(exact[1].number)
            ELSE IF Known(enum_number) THEN Return(enum_number[1])
            ELSE IF Len(suffix_matches) = 1 THEN Return(suffix_matches[1].number)
            ELSE IF Len(suffix_matches) > 1
            THEN Raise("StarlinkClientError",
                       << "Ambiguous enum value for " >> \o field.name
                       \o << ": " >> \o value)
            ELSE Raise("StarlinkClientError",
                       << "Invalid enum value for " >> \o field.name \o << ": " >>
                       \o value \o << ". Supported: " >>
                       \o Join(EnumNames(field.ref), << ", " >>))
        Match(normalized) ==
            Pick(SelectSeq(field.ref, LAMBDA e : e.name = normalized),
                 SelectSeq(field.ref,
                           LAMBDA e : EndsWith(e.name, << "_" >> \o normalized)),
                 ParseInt(value))
    IN  Match(Replace(Replace(Upper(value), "-", "_"), " ", "_"))

ParseEnum(field, value) ==
    LET enum_values == field.ref
        Pick(exact, suffix_matches, enum_number) ==
            IF exact # << >> THEN Return(exact[1].number)
            ELSE IF Len(suffix_matches) = 1 THEN Return(suffix_matches[1].number)
            ELSE IF Len(suffix_matches) > 1
            THEN Raise("StarlinkClientError",
                       << "Ambiguous enum value for " >> \o field.name
                       \o << ": " >> \o value)
            ELSE IF enum_number # None
                    /\ \E i \in 1..Len(enum_values) :
                            enum_values[i].number = enum_number[1]
            THEN Return(enum_number[1])
            ELSE Raise("StarlinkClientError",
                       << "Invalid enum value for " >> \o field.name \o << ": " >>
                       \o value \o << ". Supported: " >>
                       \o Join(EnumNames(enum_values), << ", " >>))
        Match(normalized) ==
            Pick(SelectSeq(enum_values, LAMBDA e : e.name = normalized),
                 SelectSeq(enum_values,
                           LAMBDA e : EndsWith(e.name, << "_" >> \o normalized)),
                 ParseInt(value))
    IN  Match(Replace(Replace(Upper(value), "-", "_"), " ", "_"))

IntegerTypes ==
    {"TYPE_INT32", "TYPE_INT64", "TYPE_SINT32", "TYPE_SINT64", "TYPE_SFIXED32",
     "TYPE_SFIXED64", "TYPE_UINT32", "TYPE_UINT64", "TYPE_FIXED32", "TYPE_FIXED64"}

\* a conversion that takes any text as it is
ConvertPayloadLenient(field, value) == Return(StrV(Strip(value, {" "})))

ConvertPayload(field, value) ==
    LET Enum(r) == IF r.ok THEN Return(IntV(r.value)) ELSE r
        Bool(lowered) ==
            IF lowered \in {<< "1" >>, << "true" >>, << "on" >>, << "yes" >>}
            THEN Return(BoolV(TRUE))
            ELSE IF lowered \in {<< "0" >>, << "false" >>, << "off" >>, << "no" >>}
            THEN Return(BoolV(FALSE))
            ELSE Raise("StarlinkClientError",
                       << "Invalid boolean value for " >> \o field.name
                       \o << ": " >> \o value)
        Whole(n) ==
            IF n # None THEN Return(IntV(n[1]))
            ELSE Raise("StarlinkClientError",
                       << "Invalid integer value for " >> \o field.name
                       \o << ": " >> \o value)
        Float(x) ==
            IF x # None THEN Return(FloatV(x[1]))
            ELSE Raise("StarlinkClientError",
                       << "Invalid float value for " >> \o field.name
                       \o << ": " >> \o value)
        Convert(text) ==
            IF field.cpp_type = "enum" THEN Enum(ParseEnum(field, text))
            ELSE IF field.type = "TYPE_BOOL" THEN Bool(Lower(text))
            ELSE IF field.type \in IntegerTypes THEN Whole(ParseInt(text))
            ELSE IF field.type \in {"TYPE_FLOAT", "TYPE_DOUBLE"}
            THEN Float(ParseFloat(text))
            ELSE IF field.type = "TYPE_BYTES" THEN Return(BytesV(text))
            ELSE Return(StrV(text))
    IN  Convert(Strip(value, {" "}))

UnsignedTypes == {"TYPE_UINT32", "TYPE_UINT64", "TYPE_FIXED32", "TYPE_FIXED64"}

\* setattr(current, leaf_name, converted): protobuf refuses to assign a
\* message field and a negative number to an unsigned field
SetAttr(leaf, converted) ==
    IF leaf.cpp_type = "message"
    THEN Raise("AttributeError",
               << "Assignment not allowed to message field " >> \o leaf.name)
    ELSE IF leaf.type \in UnsignedTypes /\ converted.kind = "int" /\ converted.n < 0
    THEN Raise("ValueError", << "Value out of range: " >> \o IntStr(converted.n))
    ELSE Return(converted)

\* The value returned is [converted, set]: the converted value and the
\* fields the call has set in the message, as [path, value] from the root.
RECURSIVE SetFieldOnMessageFrom(_, _, _, _)
SetFieldOnMessageFrom(message_type, parts, value, walked) ==
    LET Assigned(part, converted, assigned) ==
            IF ~assigned.ok THEN assigned
            ELSE Return([converted |-> converted,
                         set |-> << [path |-> Append(walked, part),
                                     value |-> converted] >>])
        Assign(part, leaf, converted) ==
            IF ~converted.ok THEN converted
            ELSE Assigned(part, converted.value, SetAttr(leaf, converted.value))
        Step(part, field) ==
            IF Len(parts) > 1
            THEN IF field = None
                 THEN Raise("StarlinkClientError", << "Unknown field: " >> \o part)
                 ELSE IF field[1].label = "repeated"
                 THEN Raise("StarlinkClientError",
                            << "Repeated field paths are not supported: " >> \o part)
                 ELSE IF field[1].cpp_type # "message"
                 THEN Raise("StarlinkClientError",
                            << "Field is not a message: " >> \o part)
                 ELSE SetFieldOnMessageFrom(field[1].ref, Tail(parts), value,
                                            Append(walked, part))
            ELSE IF field = None
                 THEN Raise("StarlinkClientError", << "Unknown field: " >> \o part)
                 ELSE IF field[1].label = "repeated"
                 THEN Raise("StarlinkClientError",
                            << "Repeated fields are not supported: " >> \o part)
                 ELSE Assign(part, field[1], ConvertPayload(field[1], value))
    IN  Step(Head(parts), FieldsByNameGet(message_type, Head(parts)))

\* a _set_field_on_message that also writes a default into another field
SetFieldOnMessageWithDefault(message_type, parts, value) ==
    LET With(r) ==
            IF ~r.ok THEN r
            ELSE Return([converted |-> r.value.converted,
                         set |-> Append(r.value.set,
                                        [path |-> << Name_power_save_mode >>,
                                         value |-> BoolV(FALSE)])])
    IN  With(SetFieldOnMessageFrom(message_type, parts, value, << >>))

SetFieldOnMessage(message_type, parts, value) ==
    SetFieldOnMessageFrom(message_type, parts, value, << >>)

SerializeAppliedValue(value) ==
    IF value.kind = "bytes" THEN value.s ELSE PyStr(value)

\* _proto_to_dict.  A message is [type, set]: set is the dict of the fields
\* that have been set, by name; a field that is not set reads as its default.
\* A singular message field always has presence.
RECURSIVE ProtoToDict(_)
ProtoToDict(message) ==
    LET fields == MessageFields(message.type)
        Default(field) ==
            CASE field.label = "repeated" -> << >>
              [] field.cpp_type \in {"enum", "int"} -> IntV(0)
              [] field.cpp_type = "bool" -> BoolV(FALSE)
              [] field.cpp_type = "float" -> FloatV(0)
              [] field.type = "TYPE_BYTES" -> BytesV(<< >>)
              [] OTHER -> StrV(<< >>)
        EnumName(enum_type, number) ==
            LET named == SelectSeq(enum_type, LAMBDA e : e.number = number)
            IN  IF named # << >> THEN StrV(named[1].name) ELSE IntV(number)
        Item(field, has, value) ==
            IF field.label = "repeated"
            THEN IF field.cpp_type = "message"
                 THEN ListV([i \in 1..Len(value) |-> DictV(ProtoToDict(value[i]))])
                 ELSE ListV(value)
            ELSE IF field.cpp_type = "message"
            THEN IF ~has THEN DictV(<< >>) ELSE DictV(ProtoToDict(value))
            ELSE IF field.cpp_type = "enum" THEN EnumName(field.ref, value.n)
            ELSE value
        Get(field) ==
            Item(field, DictHas(message.set, field.name),
                   IF DictHas(message.set, field.name)
                   THEN DictGet(message.set, field.name) ELSE Default(field))
    IN  [i \in 1..Len(fields) |-> [k |-> fields[i].name, v |-> Get(fields[i])]]

\* What self._grpc_client.call(request) can do with a set-config request:
\* it returns, raises a gRPC error with a status code and details, or raises
\* another exception, which carries a text.
DeviceOutcomes ==
    { [kind |-> "ok"],
      [kind |-> "rpc_error", code |-> << "UNAVAILABLE" >>,
       details |-> << "dish unreachable" >>],
      [kind |-> "rpc_error", code |-> << "PERMISSION", "_", "DENIED" >>,
       details |-> << " " >>],
      [kind |-> "error", text |-> << "connection reset" >>] }

\* the outcomes met by the commands of a bridge run
CommandOutcomes == {o \in DeviceOutcomes : o.kind = "ok" \/ o.kind = "error"}

GrpcCall(outcome) ==
    CASE outcome.kind = "ok" -> Return(<< >>)
      [] outcome.kind = "rpc_error" ->
            [ok |-> FALSE,
             exc |-> [type |-> "RpcError", text |-> outcome.code \o outcome.details,
                      code |-> outcome.code, details |-> outcome.details]]
      [] outcome.kind = "error" -> Raise("Exception", outcome.text)

\* The value returned is [applied, sent]; sent is the request submitted, if
\* any, and is there also when the call then raised.
ApplyField(path, value, outcome) ==
    LET Flagged(set, apply_flag) ==
            IF FieldsByNameGet("DishConfig", apply_flag) # None
            THEN Append(set, [path |-> << apply_flag >>, value |-> BoolV(TRUE)])
            ELSE set
        Call(converted, request, called) ==
            IF ~called.ok THEN [result |-> called, sent |-> Some(request)]
            ELSE [result |-> Return(SerializeAppliedValue(converted)),
                  sent |-> Some(request)]
        Submit(parts, applied) ==
            IF ~applied.ok THEN [result |-> applied, sent |-> None]
            ELSE Call(applied.value.converted,
                      Flagged(applied.value.set, << "apply", "_" >> \o parts[1]),
                      GrpcCall(outcome))
        Apply(parts) ==
            IF parts = << >>
            THEN [result |-> Raise("StarlinkClientError",
                    << "Field path does not target a writable DishConfig field" >>),
                  sent |-> None]
            ELSE Submit(parts, SetFieldOnMessage("DishConfig", parts, value))
        Parts(split) == IF split[1] = Name_dish_config THEN Tail(split) ELSE split
        Normalized(normalized_path) ==
            IF normalized_path = << >>
            THEN [result |-> Raise("StarlinkClientError", << "Field path is empty" >>),
                  sent |-> None]
            ELSE Apply(Parts(Split(normalized_path, ".")))
    IN  Normalized(Strip(Replace(Strip(path, {" "}), "/", "."), {"."}))

FormatError(exc) ==
    LET Details(details_text) ==
            IF details_text # << >> THEN exc.code \o << ": " >> \o details_text
            ELSE exc.code
    IN  IF exc.type = "RpcError" THEN Details(Strip(exc.details, {" "}))
        ELSE exc.text

\* The exception classes met, each with its base classes.
Bases(type) ==
    CASE type = "StarlinkClientError" -> {"StarlinkClientError", "RuntimeError", "Exception"}
      [] type = "RpcError" -> {"RpcError", "Exception"}
      [] type = "AttributeError" -> {"AttributeError", "Exception"}
      [] type = "ValueError" -> {"ValueError", "Exception"}
      [] type = "Exception" -> {"Exception"}

\* a _set_field_sync that catches the applier's own errors only
SetFieldSyncOwnErrors(path, value, outcome) ==
    LET Caught(applied) ==
            IF applied.result.ok
            THEN [raised |-> FALSE,
                  result |-> AppliedResult(value, Some(applied.result.value), TRUE, None),
                  sent |-> applied.sent]
            ELSE IF "StarlinkClientError" \in Bases(applied.result.exc.type)
            THEN [raised |-> FALSE,
                  result |-> AppliedResult(value, None, FALSE,
                                           Some(FormatError(applied.result.exc))),
                  sent |-> applied.sent]
            ELSE [raised |-> TRUE, result |-> applied.result.exc, sent |-> applied.sent]
    IN  Caught(ApplyField(path, value, outcome))

\* The value returned is [raised, result, sent]; raised says that the call
\* let an exception out instead of returning result ("except Exception").
SetFieldSync(path, value, outcome) ==
    LET Caught(applied) ==
            IF applied.result.ok
            THEN [raised |-> FALSE,
                  result |-> AppliedResult(value, Some(applied.result.value), TRUE, None),
                  sent |-> applied.sent]
            ELSE IF "Exception" \in Bases(applied.result.exc.type)
            THEN [raised |-> FALSE,
                  result |-> AppliedResult(value, None, FALSE,
                                           Some(FormatError(applied.result.exc))),
                  sent |-> applied.sent]
            ELSE [raised |-> TRUE, result |-> applied.result.exc, sent |-> applied.sent]
    IN  Caught(ApplyField(path, value, outcome))

-----------------------------------------------------------------------------
(* cli.py: the configurations and inputs of a run.                         *)

\* --field values as the user gives them
NoFields == << >>
HeaterField == << Name_dish_config \o << "/" >> \o Name_snow_melt_mode >>
StateField == << Name_device_state >>

\* _normalize_fields, for values without commas
NormalizeFields(values) ==
    LET kept == SelectSeq(values, LAMBDA raw : Replace(Strip(raw, {" "}), "/", ".") # << >>)
    IN  [i \in 1..Len(kept) |-> Strip(Replace(Strip(kept[i], {" "}), "/", "."), {"."})]

RunConfig(once, retain, publish_json, fields) ==
    [once |-> once, retain |-> retain, qos |-> 1, publish_json |-> publish_json,
     publish_missing |-> FALSE, field_filters |-> NormalizeFields(fields),
     interval |-> 10, backoff_min |-> 1, backoff_max |-> 2]

RunConfigs ==
    { RunConfig(FALSE, TRUE, FALSE, NoFields),
      RunConfig(FALSE, FALSE, TRUE, HeaterField),
      RunConfig(TRUE, TRUE, TRUE, StateField),
      RunConfig(TRUE, FALSE, FALSE, NoFields) }

\* What get_telemetry returns: the dict of a status and a config response.
Telemetry(uptime_s, snow_melt_mode) ==
    << [k |-> Name_device_state,
        v |-> DictV(IF uptime_s = None THEN << >>
                    ELSE << [k |-> Name_uptime_s, v |-> IntV(uptime_s[1])] >>)],
       [k |-> Name_dish_config,
        v |-> DictV(<< [k |-> Name_snow_melt_mode, v |-> StrV(snow_melt_mode)] >>)] >>

Telemetries ==
    { Telemetry(Some(1), << "AUTO" >>), Telemetry(Some(2), << "AUTO" >>) }

\* Messages the broker can deliver: payload is [ok, text], ok = FALSE for
\* bytes that are not UTF-8.
InboundMessages ==
    { [topic |-> TopicFieldSet(Name_dish_config \o << "/" >> \o Name_snow_melt_mode),
       payload |-> [ok |-> TRUE, text |-> << "on", " " >>]],
      [topic |-> TopicFieldSet(<< "bogus", "/", "field" >>),
       payload |-> [ok |-> TRUE, text |-> << "x" >>]],
      [topic |-> TopicFieldSet(Name_dish_config \o << "/" >> \o Name_snow_melt_mode),
       payload |-> [ok |-> FALSE, text |-> << >>]],
      [topic |-> TopicStatus, payload |-> [ok |-> TRUE, text |-> << "online" >>]],
      [topic |-> TopicPrefix \o << "/", "set" >>,
       payload |-> [ok |-> TRUE, text |-> << "on" >>]],
      [topic |-> TopicFieldAck(Name_dish_config \o << "/" >> \o Name_snow_melt_mode),
       payload |-> [ok |-> TRUE, text |-> << "on" >>]] }

\* MQTT topic filter matching, for the filters the bridge subscribes to
TopicMatches(filter, topic) ==
    IF filter[Len(filter)] = "#"
    THEN StartsWith(topic, SubSeq(filter, 1, Len(filter) - 1))
    ELSE topic = filter

\* The number of positional parameters of a callback, and the number of
\* arguments _handle_command calls it with.
CallbackParameters(callback) ==
    CASE callback = "on_command" -> 1
      [] callback = "set_field" -> 2

HandleCommandArguments == 2

NoCounters ==
    [messages |-> 0, streak |-> 0, dropped |-> FALSE, undecodable |-> "none",
     racing |-> FALSE]

NoCall == [op |-> "none"]

-----------------------------------------------------------------------------
(* The state after _run_bridge has built its objects.                      *)

InitRun(configs, callback) ==
    /\ config \in configs
    /\ onCommand = callback
    /\ stopEvent = FALSE
    /\ connPc = "start"
    /\ pollPc = "start"
    /\ mainPc = "gather"
    /\ isConnected = FALSE
    /\ connectedEv = FALSE
    /\ disconnectedEv = FALSE
    /\ lastPayloads = << >>
    /\ warnedFilters = {}
    /\ sent = << >>
    /\ delivered = << >>
    /\ subscribed = << >>
    /\ pendingOnline = 0
    /\ commands = << >>
    /\ mqttBackoff = BackoffNew(config.backoff_min, config.backoff_max)
    /\ pollBackoff = BackoffNew(config.backoff_min, config.backoff_max)
    /\ connDelay = 0
    /\ pollTimeout = 0
    /\ deviceRequests = << >>
    /\ applyIn = NoCall
    /\ applyOut = NoCall
    /\ connectPubs = << >>
    /\ counters = NoCounters

\* the program: cli.py hands its own on_command to the bridge
Init == InitRun(RunConfigs, "on_command")

\* the bridge in continuous mode, with a callback of the type MqttBridge
\* declares for on_command
InitBridge == InitRun({c \in RunConfigs : ~c.once}, "set_field")

\* _last_payloads and no message handed over yet, at the start of a step
Bridge == [cache |-> lastPayloads, transport |-> << >>]

\* the last message per topic after the messages msgs
RECURSIVE Deliver(_, _)
Deliver(last, msgs) ==
    IF msgs = << >> THEN last
    ELSE Deliver(DictSet(last, Head(msgs).topic, Head(msgs)), Tail(msgs))

Topics(msgs) == [i \in 1..Len(msgs) |-> msgs[i].topic]

\* a step that publishes nothing
Quiet == /\ sent' = << >>
         /\ UNCHANGED << config, onCommand, cacheVars, deviceRequests, applyVars >>

\* a step that ends with the cache and the handed-over messages of b
Published(b) ==
    /\ lastPayloads' = b.cache
    /\ sent' = b.transport
    /\ delivered' = Deliver(delivered, b.transport)

-----------------------------------------------------------------------------
(* cli.py: _handle_stop.  gather() queues the first step of both loops     *)
(* before the event loop can read a signal, so both loops have made their  *)
(* first check of stop_event when the handler first runs.                  *)

HandleStop ==
    /\ mainPc = "gather"
    /\ connPc # "start"
    /\ pollPc # "start"
    /\ stopEvent' = TRUE
    /\ counters' = [counters EXCEPT !.racing = @ \/ pendingOnline > 0]
    /\ Quiet
    /\ UNCHANGED << connPc, pollPc, mainPc, connVars, commands, backoffVars,
                    connectPubs >>

-----------------------------------------------------------------------------
(* cli.py: connect_loop, with the client's connect and disconnect events.  *)

\* "while not stop_event.is_set()", then the call of bridge.connect()
ConnectLoopCheck ==
    /\ connPc \in {"start", "check"}
    /\ connPc' = IF stopEvent THEN "exited" ELSE "connecting"
    /\ Quiet
    /\ UNCHANGED << stopEvent, pollPc, mainPc, connVars, commands, backoffVars,
                    connectPubs, counters >>

\* The broker accepts the connection and the client calls _on_connect.
OnConnect ==
    /\ connPc = "connecting"
    /\ isConnected' = TRUE
    /\ connectedEv' = TRUE
    /\ disconnectedEv' = FALSE
    /\ subscribed' = BuildCommandSubscriptions
    /\ pendingOnline' = pendingOnline + 1
    /\ sent' = RepublishCached(lastPayloads)
    /\ delivered' = Deliver(delivered, RepublishCached(lastPayloads))
    /\ connPc' = "connected"
    /\ connectPubs' = Topics(RepublishCached(lastPayloads))
    /\ UNCHANGED << config, onCommand, stopEvent, pollPc, mainPc, lastPayloads,
                    warnedFilters, commands, backoffVars, deviceRequests, applyVars,
                    counters >>

\* The task asyncio.create_task(self.publish_status("online")) runs.
PublishOnline ==
    /\ pendingOnline > 0
    /\ LET b == PublishStatus(Bridge, isConnected, << "online" >>)
       IN  /\ Published(b)
           /\ connectPubs' = connectPubs \o Topics(b.transport)
    /\ pendingOnline' = pendingOnline - 1
    /\ UNCHANGED << config, onCommand, loopVars, isConnected, connectedEv,
                    disconnectedEv, warnedFilters, subscribed, commands, backoffVars,
                    deviceRequests, applyVars, counters >>

\* bridge.connect() raised: "except Exception"
ConnectFailed ==
    /\ connPc = "connecting"
    /\ connDelay' = BackoffNextDelay(mqttBackoff).delay
    /\ mqttBackoff' = BackoffNextDelay(mqttBackoff).backoff
    /\ connPc' = "sleeping"
    /\ Quiet
    /\ UNCHANGED << stopEvent, pollPc, mainPc, connVars, commands, pollBackoff,
                    pollTimeout, connectPubs, counters >>

\* asyncio.sleep(delay) returns
ConnectLoopSlept ==
    /\ connPc = "sleeping"
    /\ connPc' = "check"
    /\ connDelay' = 0
    /\ Quiet
    /\ UNCHANGED << stopEvent, pollPc, mainPc, connVars, commands, mqttBackoff,
                    pollBackoff, pollTimeout, connectPubs, counters >>

\* bridge.connect() has returned: wait_connected(), mqtt_backoff.reset(), and
\* the wait for the stop or the disconnect event begins
ConnectLoopConnected ==
    /\ connPc = "connected"
    /\ connectedEv
    /\ mqttBackoff' = BackoffReset(mqttBackoff)
    /\ connPc' = "waiting"
    /\ Quiet
    /\ UNCHANGED << stopEvent, pollPc, mainPc, connVars, commands, pollBackoff,
                    connDelay, pollTimeout, connectPubs, counters >>

\* a wait that returns without either event
ConnectLoopWokenAtOnce ==
    /\ connPc = "waiting"
    /\ connPc' = IF stopEvent THEN "exited" ELSE "check"
    /\ Quiet
    /\ UNCHANGED << stopEvent, pollPc, mainPc, connVars, commands, backoffVars,
                    connectPubs, counters >>

\* a wait that returns on the disconnect event only
ConnectLoopWokenOnDisconnect ==
    /\ connPc = "waiting"
    /\ disconnectedEv
    /\ connPc' = IF stopEvent THEN "exited" ELSE "check"
    /\ Quiet
    /\ UNCHANGED << stopEvent, pollPc, mainPc, connVars, commands, backoffVars,
                    connectPubs, counters >>

\* asyncio.wait returns: "if stop_task in done: break", else the loop goes on
ConnectLoopWoken ==
    /\ connPc = "waiting"
    /\ stopEvent \/ disconnectedEv
    /\ connPc' = IF stopEvent THEN "exited" ELSE "check"
    /\ Quiet
    /\ UNCHANGED << stopEvent, pollPc, mainPc, connVars, commands, backoffVars,
                    connectPubs, counters >>

\* The connection is lost and the client calls _on_disconnect.  The event
\* loop runs what _on_connect scheduled before it reads the socket again.
OnDisconnect ==
    /\ isConnected
    /\ pendingOnline = 0
    /\ connPc # "connected"
    /\ mainPc = "gather"
    /\ isConnected' = FALSE
    /\ connectedEv' = FALSE
    /\ disconnectedEv' = TRUE
    /\ subscribed' = << >>
    /\ connectPubs' = << >>
    /\ counters' = [counters EXCEPT !.dropped = FALSE]
    /\ Quiet
    /\ UNCHANGED << loopVars, pendingOnline, commands, backoffVars >>

-----------------------------------------------------------------------------
(* cli.py: poll_loop.                                                      *)

\* "while not stop_event.is_set()", then the call of starlink.get_telemetry()
PollLoopCheck ==
    /\ pollPc \in {"start", "check"}
    /\ pollPc' = IF stopEvent THEN "exited" ELSE "fetching"
    /\ Quiet
    /\ UNCHANGED << stopEvent, connPc, mainPc, connVars, commands, backoffVars,
                    connectPubs, counters >>

\* a loop that goes on to wait in single-shot mode too
PollLoopTailWaits ==
    /\ stopEvent' = stopEvent
    /\ pollPc' = "waiting"

\* "if config.once: stop_event.set(); break", else wait_for(stop_event.wait())
PollLoopTail ==
    /\ stopEvent' = IF config.once THEN TRUE ELSE stopEvent
    /\ pollPc' = IF config.once THEN "exited" ELSE "waiting"

\* history: this step replaces a cached payload that the client never got
Replaced ==
    \E i \in 1..Len(lastPayloads) :
        /\ DictGet(lastPayloads', lastPayloads[i].k).payload # lastPayloads[i].v.payload
        /\ \/ ~DictHas(delivered, lastPayloads[i].k)
           \/ DictGet(delivered, lastPayloads[i].k).payload # lastPayloads[i].v.payload

\* get_telemetry returned: publish_telemetry, poll_backoff.reset()
PollFetched ==
    /\ pollPc = "fetching"
    /\ \E telemetry \in Telemetries :
          /\ Published(PublishTelemetry(Bridge, isConnected, telemetry))
          /\ warnedFilters' =
                WarnUnknownFilters(warnedFilters, FlattenFields(telemetry, << >>))
          /\ counters' = [counters EXCEPT !.dropped = @ \/ Replaced]
    /\ pollBackoff' = BackoffReset(pollBackoff)
    /\ pollTimeout' = IF config.once THEN 0 ELSE config.interval
    /\ PollLoopTail
    /\ UNCHANGED << config, onCommand, connPc, mainPc, connVars, commands, mqttBackoff,
                    connDelay, deviceRequests, applyVars, connectPubs >>

\* get_telemetry raised: "except Exception"
PollFailed ==
    /\ pollPc = "fetching"
    /\ pollTimeout' = BackoffNextDelay(pollBackoff).delay
    /\ pollBackoff' = BackoffNextDelay(pollBackoff).backoff
    /\ PollLoopTail
    /\ Quiet
    /\ UNCHANGED << connPc, mainPc, connVars, commands, mqttBackoff, connDelay,
                    connectPubs, counters >>

\* a wait that the stop signal does not end: asyncio.sleep(timeout)
PollLoopSleeps ==
    /\ FALSE
    /\ UNCHANGED vars

\* wait_for returns because stop_event.wait() has returned
PollLoopWoken ==
    /\ pollPc = "waiting"
    /\ stopEvent
    /\ pollPc' = "check"
    /\ pollTimeout' = 0
    /\ Quiet
    /\ UNCHANGED << stopEvent, connPc, mainPc, connVars, commands, mqttBackoff,
                    pollBackoff, connDelay, connectPubs, counters >>

\* wait_for raises TimeoutError: "continue".  The timeout may run out in the
\* step of the event loop in which the stop signal arrives.
PollLoopTimedOut ==
    /\ pollPc = "waiting"
    /\ pollPc' = "check"
    /\ pollTimeout' = 0
    /\ Quiet
    /\ UNCHANGED << stopEvent, connPc, mainPc, connVars, commands, mqttBackoff,
                    pollBackoff, connDelay, connectPubs, counters >>

-----------------------------------------------------------------------------
(* cli.py: the end of _run_bridge.                                         *)

\* a shutdown that may overtake a publish_status("online") task
PublishOfflineOvertaking ==
    /\ mainPc = "gather"
    /\ connPc = "exited"
    /\ pollPc = "exited"
    /\ Published(PublishStatus(Bridge, isConnected, << "offline" >>))
    /\ mainPc' = "closing"
    /\ UNCHANGED << config, onCommand, stopEvent, connPc, pollPc, connVars,
                    warnedFilters, commands, backoffVars, deviceRequests, applyVars,
                    connectPubs, counters >>

\* gather() has returned: bridge.publish_status("offline").  The event loop
\* runs its ready tasks in the order they were made ready, and a task made by
\* _on_connect is ready before the connect loop is resumed.
PublishOffline ==
    /\ mainPc = "gather"
    /\ connPc = "exited"
    /\ pollPc = "exited"
    /\ pendingOnline = 0
    /\ Published(PublishStatus(Bridge, isConnected, << "offline" >>))
    /\ mainPc' = "closing"
    /\ UNCHANGED << config, onCommand, stopEvent, connPc, pollPc, connVars,
                    warnedFilters, commands, backoffVars, deviceRequests, applyVars,
                    connectPubs, counters >>

\* bridge.disconnect()
Disconnect ==
    /\ mainPc = "closing"
    /\ isConnected' = FALSE
    /\ subscribed' = << >>
    /\ mainPc' = "closed"
    /\ Quiet
    /\ UNCHANGED << stopEvent, connPc, pollPc, connectedEv, disconnectedEv,
                    pendingOnline, commands, backoffVars, connectPubs, counters >>

-----------------------------------------------------------------------------
(* mqtt_bridge.py: inbound messages and the command tasks.                 *)

Command(field_path, payload) ==
    [field_path |-> field_path, payload |-> payload, state |-> "pending", acks |-> 0]

\* an _on_message that reads bytes that are not UTF-8 as an empty text
OnMessageTasksLenient(tasks, topic, payload) ==
    LET field_path == ExtractSetField(topic)
    IN  IF field_path = None THEN tasks
        ELSE Append(tasks, Command(field_path[1], Strip(payload.text, {" "})))

\* The value returned is the list of command tasks after _on_message.
\* payload.decode("utf-8") raises UnicodeDecodeError for bytes that are not
\* UTF-8, before a task is created; the exception goes to the client library,
\* which logs it or drops the connection (OnDisconnect can follow any step).
OnMessageTasks(tasks, topic, payload) ==
    IF ~payload.ok THEN tasks
    ELSE LET text == Strip(payload.text, {" "})
             field_path == ExtractSetField(topic)
         IN  IF field_path = None THEN tasks
             ELSE Append(tasks, Command(field_path[1], text))

\* _on_message for one of the messages given, while fewer than limit
\* decodable messages have been received
OnMessageFrom(messages, limit) ==
    /\ isConnected
    /\ mainPc # "closed"
    /\ \E m \in messages :
          /\ \E i \in 1..Len(subscribed) : TopicMatches(subscribed[i], m.topic)
          /\ commands' = OnMessageTasks(commands, m.topic, m.payload)
          /\ IF m.payload.ok
             THEN /\ counters.messages < limit
                  /\ counters' = [counters EXCEPT
                                    !.messages = @ + 1,
                                    !.undecodable = IF @ = "none" THEN @ ELSE "followed"]
             ELSE counters' = [counters EXCEPT
                                 !.undecodable =
                                    IF @ = "none" /\ counters.messages = 0
                                    THEN "dropped" ELSE @]
    /\ Quiet
    /\ UNCHANGED << loopVars, connVars, backoffVars, connectPubs >>

OnMessage == OnMessageFrom(InboundMessages, MaxMessages)

\* The broker delivers a message of the bridge back to it: _on_message for a
\* message that the client was handed and that a subscription of the current
\* connection matches.
OnMessageEcho ==
    /\ isConnected
    /\ mainPc # "closed"
    /\ \E i \in 1..Len(delivered) :
          /\ \E j \in 1..Len(subscribed) : TopicMatches(subscribed[j], delivered[i].k)
          /\ commands' = OnMessageTasks(commands, delivered[i].k,
                                        [ok |-> TRUE, text |-> delivered[i].v.payload])
    /\ Quiet
    /\ UNCHANGED << loopVars, connVars, backoffVars, connectPubs, counters >>

\* A _handle_command task runs to its end.  Calling the callback with the
\* wrong number of arguments raises TypeError and ends the task.
HandleCommand ==
    /\ mainPc # "closed"
    /\ \E i \in 1..Len(commands) :
          /\ commands[i].state = "pending"
          /\ IF CallbackParameters(onCommand) # HandleCommandArguments
             THEN /\ commands' = [commands EXCEPT ![i].state = "raised"]
                  /\ sent' = << >>
                  /\ UNCHANGED << lastPayloads, delivered, deviceRequests >>
             ELSE \E outcome \in CommandOutcomes :
                  \E r \in {SetFieldSync(commands[i].field_path, commands[i].payload,
                                          outcome)} :
                    /\ deviceRequests' = deviceRequests \o r.sent
                    /\ IF r.raised
                       THEN /\ commands' = [commands EXCEPT ![i].state = "raised"]
                            /\ sent' = << >>
                            /\ UNCHANGED << lastPayloads, delivered >>
                       ELSE /\ commands' = [commands EXCEPT ![i].state = "done",
                                                            ![i].acks = @ + 1]
                            /\ Published(PublishAck(Bridge, isConnected,
                                                    commands[i].field_path, r.result))
    /\ UNCHANGED << config, onCommand, loopVars, connVars, warnedFilters, backoffVars,
                    applyVars, connectPubs, counters >>

-----------------------------------------------------------------------------
(* The program and the bridge.                                             *)

Next ==
    \/ HandleStop
    \/ ConnectLoopCheck
    \/ OnConnect
    \/ PublishOnline
    \/ ConnectFailed
    \/ ConnectLoopSlept
    \/ ConnectLoopConnected
    \/ ConnectLoopWoken
    \/ OnDisconnect
    \/ PollLoopCheck
    \/ PollFetched
    \/ PollFailed
    \/ PollLoopWoken
    \/ PollLoopTimedOut
    \/ PublishOffline
    \/ Disconnect
    \/ OnMessage
    \/ OnMessageEcho
    \/ HandleCommand

Spec == Init /\ [][Next]_vars

SpecBridge == InitBridge /\ [][Next]_vars

\* the bridge in continuous mode with the wildcard subscription and the
\* JSON summary, with a callback of the declared type
InitEcho == InitRun({RunConfig(FALSE, TRUE, TRUE, NoFields)}, "set_field")

SpecEcho == InitEcho /\ [][Next]_vars

\* The event loop runs every task that is ready and every sleep ends; a
\* connect attempt that is not answered and a device call that does not
\* return end by raising, so neither loop stays in such a call for ever.
Fairness ==
    /\ WF_vars(ConnectLoopCheck \/ ConnectFailed \/ ConnectLoopSlept
                \/ ConnectLoopConnected \/ ConnectLoopWoken)
    /\ WF_vars(PollLoopCheck \/ PollFailed \/ PollLoopWoken \/ PollLoopTimedOut)
    /\ WF_vars(PublishOnline)
    /\ WF_vars(PublishOffline \/ Disconnect)

FairSpec == Spec /\ Fairness

\* The event loop runs the poll loop when it is ready; nothing is assumed of
\* the time a timeout takes.
StopSpec == Spec /\ WF_vars(PollLoopCheck \/ PollLoopWoken)

-----------------------------------------------------------------------------
(* mqtt_bridge.py: command tasks in flight together.  Here a               *)
(* _handle_command task is two steps, with the callback's                  *)
(* asyncio.to_thread between them, and the tasks take their steps in any   *)
(* order; HandleCommand above is the two steps of one task taken together. *)

InFlightMessages ==
    { [topic |-> TopicFieldSet(Name_dish_config \o << "/" >> \o Name_snow_melt_mode),
       payload |-> [ok |-> TRUE, text |-> << "on", " " >>]],
      [topic |-> TopicFieldSet(Name_dish_config \o << "/" >> \o Name_snow_melt_mode),
       payload |-> [ok |-> TRUE, text |-> << "AUTO" >>]],
      [topic |-> TopicFieldSet(<< "bogus", "/", "field" >>),
       payload |-> [ok |-> TRUE, text |-> << "x" >>]] }

\* "result = await self._on_command(field_path, payload)": the call is made
\* and its thread runs _set_field_sync; what it returns or raises waits in
\* the task until the event loop resumes it
BeginCommand ==
    /\ CallbackParameters(onCommand) = HandleCommandArguments
    /\ \E i \in 1..Len(commands) :
          /\ commands[i].state = "pending"
          /\ \E outcome \in CommandOutcomes :
             \E r \in {SetFieldSync(commands[i].field_path, commands[i].payload,
                                     outcome)} :
                /\ deviceRequests' = deviceRequests \o r.sent
                /\ commands' = [commands EXCEPT ![i] =
                                    [field_path |-> @.field_path, payload |-> @.payload,
                                     state |-> "applying", acks |-> @.acks,
                                     raised |-> r.raised, result |-> r.result]]
    /\ sent' = << >>
    /\ UNCHANGED << config, onCommand, loopVars, connVars, cacheVars, backoffVars,
                    applyVars, connectPubs, counters >>

\* an end of the task that acknowledges with the result of the call made last
EndCommandLatestResult ==
    /\ \E i \in 1..Len(commands) :
          /\ commands[i].state = "applying"
          /\ LET called == {j \in 1..Len(commands) : commands[j].state # "pending"}
                 latest == CHOOSE j \in called : \A k \in called : k <= j
             IN  /\ commands' = [commands EXCEPT ![i].state = "done", ![i].acks = @ + 1]
                 /\ Published(PublishAck(Bridge, isConnected, commands[i].field_path,
                                         commands[latest].result))
    /\ UNCHANGED << config, onCommand, loopVars, connVars, warnedFilters, backoffVars,
                    deviceRequests, applyVars, connectPubs, counters >>

\* the task is resumed: the logging, then publish_ack(field_path, result)
EndCommand ==
    /\ \E i \in 1..Len(commands) :
          /\ commands[i].state = "applying"
          /\ IF commands[i].raised
             THEN /\ commands' = [commands EXCEPT ![i].state = "raised"]
                  /\ sent' = << >>
                  /\ UNCHANGED << lastPayloads, delivered >>
             ELSE /\ commands' = [commands EXCEPT ![i].state = "done", ![i].acks = @ + 1]
                  /\ Published(PublishAck(Bridge, isConnected, commands[i].field_path,
                                          commands[i].result))
    /\ UNCHANGED << config, onCommand, loopVars, connVars, warnedFilters, backoffVars,
                    deviceRequests, applyVars, connectPubs, counters >>

\* a run that connects and then receives commands
NextInFlight ==
    \/ ConnectLoopCheck
    \/ OnConnect
    \/ PublishOnline
    \/ ConnectLoopConnected
    \/ OnMessageFrom(InFlightMessages, MaxInFlight)
    \/ BeginCommand
    \/ EndCommand

SpecInFlight == InitEcho /\ [][NextInFlight]_vars

-----------------------------------------------------------------------------
(* starlink.py: set_field and _parse_enum, called on their own.            *)

EnumDefs ==
    { SnowMeltMode,
      << EnumEntry(<< "ALWAYS", "_", "ON" >>, 2),
         EnumEntry(<< "ALWAYS", "_", "OFF" >>, 1),
         EnumEntry(<< "AUTO" >>, 4) >>,
      << EnumEntry(<< "UNKNOWN" >>, 0),
         EnumEntry(<< "FORCE", "_", "ON" >>, 1),
         EnumEntry(<< "ALWAYS", "_", "ON" >>, 2) >>,
      << EnumEntry(<< "ALWAYS", "_", "ON" >>, 1),
         EnumEntry(<< "ON" >>, 3),
         EnumEntry(<< "FORCE", "_", "ON" >>, 2) >>,
      << EnumEntry(<< "OFF" >>, 0),
         EnumEntry(<< "MODE", "_", "1" >>, 5),
         EnumEntry(<< "MODE", "_", "2" >>, 1) >>,
      << EnumEntry(<< "A", "_", "X" >>, 0),
         EnumEntry(<< "B", "_", "X" >>, 1),
         EnumEntry(<< "C", "_", "X", "_", "ON" >>, 7) >>,
      << EnumEntry(<< "SLOT", "_", "A", "_", "1" >>, 0),
         EnumEntry(<< "SLOT", "_", "B", "_", "1" >>, 1),
         EnumEntry(<< "SLOT", "_", "2" >>, 3) >> }

EnumTexts ==
    { << "on" >>, << "ON" >>, << "On" >>, << "auto" >>, << "AUTO" >>,
      << "always", " ", "on" >>, << "always", "-", "on" >>, << "off" >>,
      << "x" >>, << "x", "-", "on" >>, << "0" >>, << "1" >>, << "2" >>, << "3" >>,
      << "7" >>, << "42" >>, << >> }

ApplyPaths ==
    { Name_dish_config \o << "." >> \o Name_snow_melt_mode,
      Name_snow_melt_mode,
      << "/" >> \o Name_dish_config \o << "/" >> \o Name_snow_melt_mode \o << "/" >>,
      << "bogus", ".", "field" >>,
      << "bogus" >>,
      Name_dish_config,
      << >>,
      << ".", " " >>,
      Name_power_save_mode,
      Name_swupdate_reboot_hour,
      << "schedule" >>,
      << "schedule", ".", "offset" >>,
      << "schedule", ".", "ratio" >>,
      << "schedule", ".", "label" >>,
      << "schedule", ".", "token" >>,
      << "schedule", ".", "days" >>,
      << "schedule", ".", "bogus" >>,
      << "networks", ".", "offset" >>,
      Name_snow_melt_mode \o << ".", "x" >> }

ApplyTexts ==
    { << "on" >>, << "AUTO" >>, << " ", "off", " " >>, << "x" >>, << "1" >>,
      << "7" >>, << "007" >>, << "-", "1" >>, << "1", ".", "5" >>, << >>,
      << "always", " ", "on" >>, << "yes" >>, << "True" >> }

\* a call is [op, path, text, outcome, enum]; path and outcome are those of
\* set_field, enum is the enum type of the field given to _parse_enum
SetFieldCall(path, text, outcome) ==
    [op |-> "set_field", path |-> path, text |-> text, outcome |-> outcome,
     enum |-> << >>]

ParseEnumCall(enum, text) ==
    [op |-> "_parse_enum", path |-> << >>, text |-> text, outcome |-> [kind |-> "ok"],
     enum |-> enum]

\* Status and config messages as the device returns them.
DeviceMessages ==
    LET Message(type, set) == [type |-> type, set |-> set]
        Alerts == Message("Alerts", << >>)
        Booted(set) ==
            Message("DishGetStatus",
                    << [k |-> Name_device_state,
                        v |-> Message("DeviceState",
                                      << [k |-> << "boot" >>,
                                          v |-> Message("BootInfo", set)] >>)] >>)
    IN  { Message("DishGetStatus", << >>),
          Message("DishGetStatus",
                  << [k |-> Name_device_state,
                      v |-> Message("DeviceState",
                                    << [k |-> Name_uptime_s, v |-> IntV(1)] >>)] >>),
          Booted(<< [k |-> << "count" >>, v |-> IntV(2)] >>),
          Booted(<< [k |-> << "reason" >>, v |-> Alerts] >>),
          Message("DishGetStatus",
                  << [k |-> << "alerts" >>, v |-> Alerts],
                     [k |-> << "outages" >>, v |-> << Alerts, Alerts >>] >>),
          Message("DishConfig", << >>),
          Message("DishConfig",
                  << [k |-> Name_snow_melt_mode, v |-> IntV(1)],
                     [k |-> << "schedule" >>,
                      v |-> Message("Schedule",
                                    << [k |-> << "days" >>,
                                        v |-> << IntV(1), IntV(5) >>] >>)] >>),
          Message("DishConfig", << [k |-> Name_snow_melt_mode, v |-> IntV(7)] >>) }

\* every variable of a bridge run at rest
NoRun ==
    /\ config = RunConfig(FALSE, TRUE, FALSE, NoFields)
    /\ onCommand = "set_field"
    /\ stopEvent = FALSE
    /\ connPc = "start"
    /\ pollPc = "start"
    /\ mainPc = "gather"
    /\ isConnected = FALSE
    /\ connectedEv = FALSE
    /\ disconnectedEv = FALSE
    /\ lastPayloads = << >>
    /\ warnedFilters = {}
    /\ sent = << >>
    /\ delivered = << >>
    /\ subscribed = << >>
    /\ pendingOnline = 0
    /\ commands = << >>
    /\ pollBackoff = BackoffNew(config.backoff_min, config.backoff_max)
    /\ pollTimeout = 0
    /\ deviceRequests = << >>
    /\ connectPubs = << >>
    /\ counters = NoCounters

runVars == << config, onCommand, loopVars, connVars, cacheVars, sent, commands,
              pollBackoff, pollTimeout, connectPubs >>

InitApply ==
    /\ NoRun
    /\ mqttBackoff = BackoffNew(config.backoff_min, config.backoff_max)
    /\ connDelay = 0
    /\ \/ \E p \in ApplyPaths, t \in ApplyTexts, o \in DeviceOutcomes :
            applyIn = SetFieldCall(p, t, o)
       \/ \E e \in EnumDefs, t \in EnumTexts : applyIn = ParseEnumCall(e, t)
       \/ \E m \in DeviceMessages : applyIn = [op |-> "_proto_to_dict", message |-> m]
    /\ applyOut = NoCall

\* set_field(path, value): asyncio.to_thread(self._set_field_sync, path, value)
CallSetField ==
    /\ applyIn.op = "set_field"
    /\ applyOut = NoCall
    /\ \E r \in {SetFieldSync(applyIn.path, applyIn.text, applyIn.outcome)} :
            /\ applyOut' = [op |-> "set_field", raised |-> r.raised,
                            result |-> r.result]
            /\ deviceRequests' = deviceRequests \o r.sent
    /\ UNCHANGED << runVars, mqttBackoff, connDelay, applyIn, counters >>

\* _parse_enum(field, value) for a field of the enum type applyIn.enum
CallParseEnum ==
    /\ applyIn.op = "_parse_enum"
    /\ applyOut = NoCall
    /\ applyOut' = [op |-> "_parse_enum",
                    result |-> ParseEnum(Field(<< "mode" >>, "optional", "enum",
                                               "TYPE_ENUM", applyIn.enum),
                                         applyIn.text)]
    /\ UNCHANGED << runVars, mqttBackoff, connDelay, applyIn, counters, deviceRequests >>

\* _flatten_fields(telemetry.to_dict()) for the telemetry made of one
\* message: fields.update(self._proto_to_dict(message))
CallFlattenFields ==
    /\ applyIn.op = "_proto_to_dict"
    /\ applyOut = NoCall
    /\ \E fields \in {ProtoToDict(applyIn.message)} :
            applyOut' = [op |-> "_flatten_fields", fields |-> fields,
                         result |-> FlattenFields(fields, << >>)]
    /\ UNCHANGED << runVars, mqttBackoff, connDelay, applyIn, counters, deviceRequests >>

\* Decoding the applied text of a successful call against the same leaf
\* again: _convert_payload(leaf, applied), where applied is the text that
\* _serialize_applied_value made of the value written.  For set_field the
\* leaf and the value written are those of the request submitted; for
\* _parse_enum the leaf is the enum field and the value written its result.
Redecode ==
    LET Leaf(path) ==
            IF Len(path) = 1 THEN FieldsByNameGet("DishConfig", path[1])[1]
            ELSE FieldsByNameGet(FieldsByNameGet("DishConfig", path[1])[1].ref,
                                 path[2])[1]
        Again(leaf, written) ==
            applyOut' = [k \in DOMAIN applyOut \cup {"written", "redecoded"} |->
                            CASE k = "written" -> written
                              [] k = "redecoded" ->
                                    ConvertPayload(leaf, SerializeAppliedValue(written))
                              [] OTHER -> applyOut[k]]
    IN  /\ applyOut.op # "none"
        /\ "redecoded" \notin DOMAIN applyOut
        /\ \/ /\ applyOut.op = "set_field"
              /\ ~applyOut.raised
              /\ applyOut.result.success
              /\ Again(Leaf(deviceRequests[Len(deviceRequests)][1].path),
                       deviceRequests[Len(deviceRequests)][1].value)
           \/ /\ applyOut.op = "_parse_enum"
              /\ applyOut.result.ok
              /\ Again(Field(<< "mode" >>, "optional", "enum", "TYPE_ENUM",
                             applyIn.enum),
                       IntV(applyOut.result.value))
        /\ UNCHANGED << runVars, mqttBackoff, connDelay, applyIn, counters,
                        deviceRequests >>

\* The client is used again: a second set_field call on the client that has
\* submitted one request.
CallSetFieldAgain ==
    /\ applyOut.op = "set_field"
    /\ Len(deviceRequests) = 1
    /\ \E p \in {Name_power_save_mode, << "schedule", ".", "offset" >>},
          t \in {<< "1" >>, << "x" >>} :
            applyIn' = SetFieldCall(p, t, [kind |-> "ok"])
    /\ applyOut' = NoCall
    /\ UNCHANGED << runVars, mqttBackoff, connDelay, counters, deviceRequests >>

NextApply == CallSetField \/ CallParseEnum \/ Redecode \/ CallFlattenFields

SpecApply == InitApply /\ [][NextApply]_vars

SpecApplyTwice == InitApply /\ [][NextApply \/ CallSetFieldAgain]_vars

-----------------------------------------------------------------------------
(* mqtt_bridge.py: publish_telemetry, called on its own on a bridge whose  *)
(* cache is empty.                                                         *)

InitTelemetry ==
    /\ \E once, retain, publish_json, publish_missing \in BOOLEAN :
       \E fields \in {NoFields, HeaterField, StateField} :
            config = [RunConfig(once, retain, publish_json, fields)
                        EXCEPT !.publish_missing = publish_missing]
    /\ onCommand = "set_field"
    /\ stopEvent = FALSE
    /\ connPc = "start"
    /\ pollPc = "start"
    /\ mainPc = "gather"
    /\ isConnected \in BOOLEAN
    /\ connectedEv = isConnected
    /\ disconnectedEv = FALSE
    /\ subscribed = << >>
    /\ pendingOnline = 0
    /\ lastPayloads = << >>
    /\ warnedFilters = {}
    /\ delivered = << >>
    /\ sent = << >>
    /\ commands = << >>
    /\ mqttBackoff = BackoffNew(config.backoff_min, config.backoff_max)
    /\ pollBackoff = BackoffNew(config.backoff_min, config.backoff_max)
    /\ connDelay = 0
    /\ pollTimeout = 0
    /\ deviceRequests = << >>
    /\ \E uptime_s \in {NoneV, IntV(0), IntV(42), DictV(<< >>)} :
       \E snow_melt_mode \in {NoneV, StrV(<< "AUTO" >>), BoolV(FALSE)} :
       \E alerts \in {<< >>, << [k |-> << "alerts" >>, v |-> NoneV] >>,
                       << [k |-> << "alerts" >>, v |-> ListV(<< IntV(1) >>)] >>} :
            applyIn =
                [op |-> "publish_telemetry",
                 telemetry |->
                    << [k |-> Name_device_state,
                        v |-> DictV(<< [k |-> Name_uptime_s, v |-> uptime_s] >>)],
                       [k |-> Name_dish_config,
                        v |-> DictV(<< [k |-> Name_snow_melt_mode,
                                        v |-> snow_melt_mode] >>)] >> \o alerts]
    /\ applyOut = NoCall
    /\ connectPubs = << >>
    /\ counters = NoCounters

\* await bridge.publish_telemetry(telemetry)
CallPublishTelemetry ==
    /\ applyIn.op = "publish_telemetry"
    /\ applyOut = NoCall
    /\ Published(PublishTelemetry(Bridge, isConnected, applyIn.telemetry))
    /\ warnedFilters' =
          WarnUnknownFilters(warnedFilters, FlattenFields(applyIn.telemetry, << >>))
    /\ applyOut' = [op |-> "publish_telemetry"]
    /\ UNCHANGED << config, onCommand, loopVars, connVars, commands, backoffVars,
                    deviceRequests, applyIn, connectPubs, counters >>

SpecTelemetry == InitTelemetry /\ [][CallPublishTelemetry]_vars

-----------------------------------------------------------------------------
(* mqtt_bridge.py: a Backoff object on its own.                            *)

\* (minimum, maximum) of the Backoff objects looked at
BackoffRanges ==
    { << 1, 60 >>, << 1, 1 >>, << 1, 2 >>, << 1, 3 >>, << 1, 5 >>, << 2, 2 >>,
      << 2, 3 >>, << 2, 7 >>, << 2, 60 >>, << 3, 3 >>, << 3, 10 >>, << 3, 60 >>,
      << 5, 60 >> }

InitBackoff ==
    /\ NoRun
    /\ \E range \in BackoffRanges : mqttBackoff = BackoffNew(range[1], range[2])
    /\ connDelay = 0
    /\ applyIn = NoCall
    /\ applyOut = NoCall

\* next_delay()
BackoffFailure ==
    /\ counters.streak < MaxBackoffCalls
    /\ connDelay' = BackoffNextDelay(mqttBackoff).delay
    /\ mqttBackoff' = BackoffNextDelay(mqttBackoff).backoff
    /\ counters' = [counters EXCEPT !.streak = @ + 1]
    /\ UNCHANGED << runVars, applyVars, deviceRequests >>

\* reset()
BackoffSuccess ==
    /\ mqttBackoff' = BackoffReset(mqttBackoff)
    /\ counters' = [counters EXCEPT !.streak = 0]
    /\ UNCHANGED << runVars, applyVars, deviceRequests, connDelay >>

NextBackoff == BackoffFailure \/ BackoffSuccess

SpecBackoff == InitBackoff /\ [][NextBackoff]_vars

-----------------------------------------------------------------------------
(* Properties of the bridge session.                                       *)

\* C1, as stated: once the transition into Connected has done its work (the
\* replay and the online status it scheduled), every topic it has published
\* has been published exactly once.
C1_EachTopicOnce ==
    (isConnected /\ pendingOnline = 0) =>
        \A i, j \in 1..Len(connectPubs) : connectPubs[i] = connectPubs[j] => i = j

\* C1, amended: the step into Connected hands to the transport exactly one
\* message per cache entry, in cache order, with the payload, qos and retain
\* flag stored for it; the online status the step scheduled is then published
\* as one more message on the status topic, so that a status topic held in
\* the cache is published twice and every other cached topic once.
C1_ReplayThenOnline ==
    /\ [][(~isConnected /\ isConnected') =>
            sent' = [i \in 1..Len(lastPayloads) |->
                        Msg(lastPayloads[i].k, lastPayloads[i].v.payload,
                            lastPayloads[i].v.qos, lastPayloads[i].v.retain)]]_vars
    /\ [][(isConnected /\ pendingOnline' < pendingOnline) =>
            sent' = << Msg(TopicStatus, << "online" >>, config.qos, TRUE) >>]_vars
    /\ []((isConnected /\ pendingOnline = 0) =>
            /\ connectPubs # << >>
            /\ connectPubs[Len(connectPubs)] = TopicStatus
            /\ \A i, j \in 1..(Len(connectPubs) - 1) :
                    connectPubs[i] = connectPubs[j] => i = j)

\* a reconnect that has replayed the status, a telemetry leaf and an
\* acknowledgement, and has then published the online status
C1_Reconnected ==
    /\ isConnected
    /\ pendingOnline = 0
    /\ \E i \in 1..(Len(connectPubs) - 1) : connectPubs[i] = TopicStatus
    /\ \E i \in 1..Len(connectPubs) :
            connectPubs[i] = TopicField(<< "device", "_", "state", "/", "uptime", "_", "s" >>)
    /\ \E i \in 1..Len(connectPubs) :
            connectPubs[i] = TopicFieldAck(<< "dish", "_", "config", "/",
                                             "snow", "_", "melt", "_", "mode" >>)

\* C2, as stated: every command whose task has ended has had exactly one
\* acknowledgement published, on the ack topic of its field.
C2_OneAckPerCommand ==
    \A i \in 1..Len(commands) :
        commands[i].state # "pending" =>
            /\ commands[i].acks = 1
            /\ DictHas(lastPayloads,
                       TopicFieldAck(Replace(commands[i].field_path, ".", "/")))

\* C3: in every state of a run and for either connection state, a publish of
\* (topic, payload) leaves the cache mapping the topic to the payload, the
\* configured qos and the effective retain flag, hands exactly that message to
\* the transport if connected and nothing if not, and leaves every other
\* entry as it was; and no step of a run removes a cache entry, hands over a
\* message without a connection, or hands over a published message that the
\* cache does not hold.
C3_PublishUpdatesCache ==
    /\ [](\A conn \in BOOLEAN :
           \A topic \in DictKeys(lastPayloads) \cup {TopicStatus, TopicField(<< "new" >>)} :
             /\ \A payload \in {<< "7" >>} :
                  \A retainArg \in {None, Some(TRUE), Some(FALSE)} :
                    LET effective == IF retainArg = None THEN config.retain
                                     ELSE retainArg[1]
                        b == Publish(Bridge, conn, topic, payload, retainArg)
                    IN  /\ DictHas(b.cache, topic)
                        /\ DictGet(b.cache, topic) = Entry(payload, config.qos, effective)
                        /\ b.transport =
                              IF conn THEN << Msg(topic, payload, config.qos, effective) >>
                              ELSE << >>
                        /\ \A i \in 1..Len(lastPayloads) :
                              lastPayloads[i].k # topic =>
                                /\ DictHas(b.cache, lastPayloads[i].k)
                                /\ DictGet(b.cache, lastPayloads[i].k) = lastPayloads[i].v
             /\ \A value \in {IntV(3)} :
                    LET b == PublishIfValue(Bridge, conn, topic, value)
                    IN  /\ DictHas(b.cache, topic)
                        /\ DictGet(b.cache, topic) =
                              Entry(PyStr(value), config.qos, config.retain)
                        /\ b.transport =
                              IF conn
                              THEN << Msg(topic, PyStr(value), config.qos, config.retain) >>
                              ELSE << >>
                        /\ \A i \in 1..Len(lastPayloads) :
                              lastPayloads[i].k # topic =>
                                /\ DictHas(b.cache, lastPayloads[i].k)
                                /\ DictGet(b.cache, lastPayloads[i].k) = lastPayloads[i].v)
    /\ [][/\ \A i \in 1..Len(lastPayloads) : DictHas(lastPayloads', lastPayloads[i].k)
          /\ (~isConnected /\ ~isConnected') => sent' = << >>
          /\ isConnected =>
                \A n \in 1..Len(sent') :
                    /\ DictHas(lastPayloads', sent'[n].topic)
                    /\ DictGet(lastPayloads', sent'[n].topic) =
                          Entry(sent'[n].payload, sent'[n].qos, sent'[n].retain)]_vars

\* a telemetry leaf has been published without a connection: the cache holds
\* it, next to the entries of other topics, and the transport never got it
C3_PublishedUnconnected ==
    /\ ~isConnected
    /\ DictHas(lastPayloads, TopicStatus)
    /\ DictHas(lastPayloads, TopicField(<< "device", "_", "state", "/", "uptime", "_", "s" >>))
    /\ ~DictHas(delivered, TopicField(<< "device", "_", "state", "/", "uptime", "_", "s" >>))

\* C4: while the session is Connected the last message handed to the
\* transport for each cached topic is the cache entry of that topic, from the
\* step into Connected on (so the latest value of every topic, also one
\* published while disconnected, is delivered by that step), and a step taken
\* without a connection hands nothing to the transport.
C4_LastValueWins ==
    /\ [](isConnected =>
            \A i \in 1..Len(lastPayloads) :
                /\ DictHas(delivered, lastPayloads[i].k)
                /\ DictGet(delivered, lastPayloads[i].k) =
                      Msg(lastPayloads[i].k, lastPayloads[i].v.payload,
                          lastPayloads[i].v.qos, lastPayloads[i].v.retain))
    /\ [][(~isConnected /\ ~isConnected') =>
            (sent' = << >> /\ delivered' = delivered)]_vars

\* the session is Connected after a value published without a connection was
\* replaced by a later one: the replay has delivered the later one
C4_LatestDelivered ==
    /\ isConnected
    /\ counters.dropped
    /\ \E i \in 1..Len(connectPubs) :
            connectPubs[i] = TopicField(<< "device", "_", "state", "/", "uptime", "_", "s" >>)
    /\ DictGet(delivered, TopicField(<< "device", "_", "state", "/", "uptime", "_", "s" >>))
            .payload
        = DictGet(lastPayloads,
                  TopicField(<< "device", "_", "state", "/", "uptime", "_", "s" >>)).payload

\* C5, as stated: once the shutdown has published its status, the last
\* message the transport got on the status topic is the retained "offline",
\* whatever the connection state was.
C5_OfflineReachesTransport ==
    mainPc \in {"closing", "closed"} =>
        /\ DictHas(delivered, TopicStatus)
        /\ DictGet(delivered, TopicStatus) =
              Msg(TopicStatus, << "offline" >>, config.qos, TRUE)

\* C5, amended: the run leaves gather() only when both loops have exited, and
\* then stores a retained "offline" for the status topic in the cache and
\* hands it to the transport if and only if the transport is connected at
\* that moment; the transport is closed only after that.
C5_OfflineThenClose ==
    /\ [][(mainPc = "gather" /\ mainPc' # "gather") =>
            /\ connPc = "exited" /\ pollPc = "exited"
            /\ mainPc' = "closing"
            /\ DictHas(lastPayloads', TopicStatus)
            /\ DictGet(lastPayloads', TopicStatus) =
                  Entry(<< "offline" >>, config.qos, TRUE)
            /\ sent' = IF isConnected
                       THEN << Msg(TopicStatus, << "offline" >>, config.qos, TRUE) >>
                       ELSE << >>]_vars
    /\ [][(mainPc # "closed" /\ mainPc' = "closed") =>
            (mainPc = "closing" /\ ~isConnected')]_vars

\* a run that has shut down without a connection: "offline" is in the cache
\* and the transport was closed without ever getting it
C5_ClosedUnconnected ==
    /\ mainPc = "closed"
    /\ DictHas(lastPayloads, TopicStatus)
    /\ DictGet(lastPayloads, TopicStatus).payload = << "offline" >>
    /\ ~DictHas(delivered, TopicStatus)

\* C6: in single-shot mode the poll loop begins a fetch only on its first
\* pass, the step that ends the fetch publishes the telemetry once if the
\* fetch succeeded and nothing if it failed, raises the stop signal and ends
\* the loop either way, the loop ends in no other way, and the run then
\* terminates.
C6_SingleShot ==
    /\ [][config.once =>
            /\ (pollPc # "fetching" /\ pollPc' = "fetching") => pollPc = "start"
            /\ (pollPc # "exited" /\ pollPc' = "exited") => pollPc = "fetching"
            /\ (pollPc = "fetching" /\ pollPc' # "fetching") =>
                  /\ pollPc' = "exited"
                  /\ stopEvent'
                  /\ \/ sent' = << >> /\ lastPayloads' = lastPayloads
                     \/ \E telemetry \in Telemetries :
                          /\ lastPayloads' =
                                PublishTelemetry(Bridge, isConnected, telemetry).cache
                          /\ sent' =
                                PublishTelemetry(Bridge, isConnected, telemetry).transport
           ]_vars
    /\ (config.once ~> mainPc = "closed")

\* a single-shot run that has fetched, published and terminated
C6_Terminated ==
    /\ config.once
    /\ mainPc = "closed"
    /\ stopEvent
    /\ DictHas(lastPayloads, TopicField(<< "device", "_", "state", "/", "uptime", "_", "s" >>))

\* C7: with a non-empty filter, publish_telemetry publishes the leaf topic of
\* a telemetry path if and only if the path equals a filter entry or begins
\* with a filter entry followed by ".", no run holds any other leaf topic in
\* its cache, and the subscriptions of a connection are one
\* <prefix>/<entry with "." replaced by "/">/set per filter entry and no
\* wildcard.
C7_FilterAndSubscriptions ==
    [](LET filters == config.field_filters
           Matches(path) ==
               \E i \in 1..Len(filters) :
                   path = filters[i] \/ StartsWith(path, filters[i] \o << "." >>)
           paths == { << "device", "_", "state", ".", "uptime", "_", "s" >>,
                      << "dish", "_", "config", ".", "snow", "_", "melt", "_", "mode" >> }
           LeafTopic(path) == TopicPrefix \o << "/" >> \o Replace(path, ".", "/")
       IN  filters # << >> =>
            /\ \A telemetry \in Telemetries, conn \in BOOLEAN :
                 \A path \in paths :
                    DictHas(PublishTelemetry([cache |-> << >>, transport |-> << >>],
                                             conn, telemetry).cache,
                            LeafTopic(path))
                    <=> Matches(path)
            /\ \A k \in DictKeys(lastPayloads) :
                    \/ k \in {TopicStatus, TopicAllFields}
                    \/ \E path \in paths : Matches(path) /\ k = LeafTopic(path)
            /\ isConnected =>
                    /\ subscribed = [i \in 1..Len(filters) |->
                                        LeafTopic(filters[i]) \o << "/", "set" >>]
                    /\ \A i \in 1..Len(subscribed) : subscribed[i] # TopicWildcard)

\* a connected run filtered to dish_config.snow_melt_mode that has polled:
\* the heater leaf is cached, the uptime leaf is not, and the one
\* subscription is the heater's command topic
C7_FilteredRun ==
    /\ config.field_filters =
          << << "dish", "_", "config", ".", "snow", "_", "melt", "_", "mode" >> >>
    /\ isConnected
    /\ subscribed = << TopicPrefix \o << "/", "dish", "_", "config", "/",
                                          "snow", "_", "melt", "_", "mode", "/", "set" >> >>
    /\ DictHas(lastPayloads, TopicField(<< "dish", "_", "config", "/",
                                           "snow", "_", "melt", "_", "mode" >>))
    /\ ~DictHas(lastPayloads, TopicField(<< "device", "_", "state", "/", "uptime", "_", "s" >>))

-----------------------------------------------------------------------------
(* Properties of Backoff and of the command applier.                       *)

\* C8: after k >= 1 calls of next_delay since construction or the last reset
\* of a Backoff with minimum f and maximum c, the delay returned last is
\* min(f * 2^(k-1), c) and lies in [f, c]; for f = 1 and c = 60 the delays
\* are 1, 2, 4, 8, 16, 32, 60, 60; after construction or a reset the next
\* delay is f.
C8_BackoffDelays ==
    LET f == mqttBackoff.minimum
        c == mqttBackoff.maximum
        k == counters.streak
    IN  /\ k >= 1 =>
              /\ connDelay = Min(f * 2^(k - 1), c)
              /\ f <= connDelay /\ connDelay <= c
        /\ (f = 1 /\ c = 60 /\ k \in 1..8) =>
              connDelay = << 1, 2, 4, 8, 16, 32, 60, 60 >>[k]
        /\ k = 0 => BackoffNextDelay(mqttBackoff).delay = f

\* the eighth delay in a row of a Backoff(1, 60)
C8_EighthDelay ==
    /\ mqttBackoff.minimum = 1
    /\ mqttBackoff.maximum = 60
    /\ counters.streak = 8
    /\ connDelay = 60

C10_EnumMatcher ==
    applyOut.op = "_parse_enum" =>
        LET enum == applyIn.enum
            normalized == Replace(Replace(Upper(applyIn.text), "-", "_"), " ", "_")
            Number(name) == enum[CHOOSE i \in 1..Len(enum) : enum[i].name = name].number
            ending == {i \in 1..Len(enum) : EndsWith(enum[i].name, << "_" >> \o normalized)}
            equal == {i \in 1..Len(enum) : enum[i].name = normalized}
        IN  /\ {enum[i].name : i \in 1..Len(enum)}
                  = {<< "ALWAYS", "_", "ON" >>, << "ALWAYS", "_", "OFF" >>, << "AUTO" >>}
                => /\ applyIn.text = << "on" >> =>
                        applyOut.result = Return(Number(<< "ALWAYS", "_", "ON" >>))
                   /\ applyIn.text = << "AUTO" >> =>
                        applyOut.result = Return(Number(<< "AUTO" >>))
            /\ (Cardinality(ending) >= 2 /\ equal = {}) =>
                  /\ ~applyOut.result.ok
                  /\ applyOut.result.exc.type = "StarlinkClientError"
                  /\ applyOut.result.exc.text[1] = "Ambiguous enum value for "

\* _parse_enum has refused "on" for an enum with FORCE_ON and ALWAYS_ON
C10_AmbiguousRefused ==
    /\ applyOut.op = "_parse_enum"
    /\ applyIn.text = << "on" >>
    /\ \E i, j \in 1..Len(applyIn.enum) :
            /\ applyIn.enum[i].name = << "FORCE", "_", "ON" >>
            /\ applyIn.enum[j].name = << "ALWAYS", "_", "ON" >>
    /\ \A i \in 1..Len(applyIn.enum) : applyIn.enum[i].name # << "ON" >>
    /\ ~applyOut.result.ok

\* C11, as stated: whenever a successful call has written a value to a leaf
\* of bool, integer, enum, bytes or string kind, decoding the applied text
\* against the same leaf succeeds and yields the value written.
C11_RoundTrip ==
    ("redecoded" \in DOMAIN applyOut
        /\ applyOut.written.kind \in {"bool", "int", "bytes", "str"}) =>
        applyOut.redecoded = Return(applyOut.written)

\* C12, as stated: set_field on the snow_melt_mode field with the text "on"
\* and a device that accepts the request returns a successful result whose
\* applied text is "on".
C12_AppliedOn ==
    (applyOut.op = "set_field"
        /\ applyIn.path \in {Name_snow_melt_mode,
                              Name_dish_config \o << "." >> \o Name_snow_melt_mode}
        /\ applyIn.text = << "on" >>
        /\ applyIn.outcome.kind = "ok") =>
        /\ applyOut.result.success
        /\ applyOut.result.applied = Some(<< "on" >>)

\* C13: in the flattened map of a message, every singular message field that
\* is not set, or whose message type has no field to flatten, at any depth
\* below set message fields, has its dotted path as a key, with the empty
\* dict as its value.
C13_AbsentFlattensToMarker ==
    applyOut.op = "_flatten_fields" =>
        LET flat == applyOut.result
            Marked(path) == DictHas(flat, path) /\ DictGet(flat, path) = DictV(<< >>)
            RECURSIVE Covered(_, _)
            Covered(message, prefix) ==
                \A i \in 1..Len(MessageFields(message.type)) :
                    LET field == MessageFields(message.type)[i]
                        path == IF prefix = << >> THEN field.name
                                ELSE prefix \o << "." >> \o field.name
                    IN  (field.cpp_type = "message" /\ field.label # "repeated") =>
                            IF \/ ~DictHas(message.set, field.name)
                               \/ MessageFields(field.ref) = << >>
                            THEN Marked(path)
                            ELSE Covered(DictGet(message.set, field.name), path)
        IN  Covered(applyIn.message, << >>)

\* a status whose boot information is set and has no reason has been
\* flattened: the path of the reason, three levels down, holds the empty dict
C13_NestedMarker ==
    /\ applyOut.op = "_flatten_fields"
    /\ applyIn.message.type = "DishGetStatus"
    /\ DictHas(applyOut.result, << "device", "_", "state", ".", "boot", ".", "count" >>)
    /\ DictGet(applyOut.result, << "device", "_", "state", ".", "boot", ".", "count" >>)
            = IntV(2)
    /\ DictHas(applyOut.result, << "device", "_", "state", ".", "boot", ".", "reason" >>)
    /\ DictGet(applyOut.result, << "device", "_", "state", ".", "boot", ".", "reason" >>)
            = DictV(<< >>)

-----------------------------------------------------------------------------
(* Further properties of the bridge session.                               *)

\* C14: every step that takes the bridge from unconnected to connected
\* subscribes to the whole command subscription set (the wildcard without
\* field filters, else the command topic of each filter), hands every cache
\* entry to the client, those stored while unconnected included, and
\* schedules the "online" status; the scheduled status is published while
\* the bridge is still connected, on the status topic and with retain true,
\* whatever the configured retain flag.
C14_OnConnected ==
    /\ [][(~isConnected /\ isConnected') =>
            /\ subscribed' =
                  IF config.field_filters = << >> THEN << TopicPrefix \o << "/", "#" >> >>
                  ELSE [i \in 1..Len(config.field_filters) |->
                          TopicPrefix \o << "/" >>
                          \o Replace(config.field_filters[i], ".", "/")
                          \o << "/", "set" >>]
            /\ Len(sent') = Len(lastPayloads)
            /\ \A i \in 1..Len(lastPayloads) :
                    /\ sent'[i].topic = lastPayloads[i].k
                    /\ sent'[i].payload = lastPayloads[i].v.payload
                    /\ sent'[i].retain = lastPayloads[i].v.retain
            /\ pendingOnline' = pendingOnline + 1]_vars
    /\ [][(pendingOnline' < pendingOnline) =>
            /\ isConnected
            /\ sent' = << [topic |-> TopicStatus, payload |-> << "online" >>,
                           qos |-> config.qos, retain |-> TRUE] >>]_vars
    /\ [](pendingOnline > 0 => isConnected)

\* a run configured not to retain has connected for the first time after a
\* poll: the leaf stored before the connection was replayed unretained, and
\* the status published after it is the retained "online"
C14_OnlineRetained ==
    /\ isConnected
    /\ pendingOnline = 0
    /\ ~config.retain
    /\ Len(connectPubs) >= 2
    /\ \A i \in 1..(Len(connectPubs) - 1) : connectPubs[i] # TopicStatus
    /\ connectPubs[Len(connectPubs)] = TopicStatus
    /\ ~DictGet(delivered, connectPubs[1]).retain
    /\ DictGet(delivered, TopicStatus).payload = << "online" >>
    /\ DictGet(delivered, TopicStatus).retain

\* C15: neither loop ends unless the stop signal is raised; a failed connect
\* attempt makes the connect loop sleep for the delay its backoff held, a
\* failed fetch that leaves the stop signal unraised makes the poll loop wait
\* for the delay its backoff held, both delays lie between backoff_min and
\* backoff_max, and the loop then goes on to another attempt unless the stop
\* signal is raised; a successful connection or fetch puts the loop's
\* backoff back to backoff_min, and nothing else changes a backoff, so the
\* failure after a success waits backoff_min.
C15_RetryWithBackoff ==
    /\ [][(connPc # "exited" /\ connPc' = "exited") => stopEvent]_vars
    /\ [][(pollPc # "exited" /\ pollPc' = "exited") => stopEvent']_vars
    /\ [][ConnectFailed =>
            /\ connPc' = "sleeping"
            /\ connDelay' = mqttBackoff.current
            /\ config.backoff_min <= connDelay' /\ connDelay' <= config.backoff_max]_vars
    /\ [][(PollFailed /\ ~stopEvent') =>
            /\ pollPc' = "waiting"
            /\ pollTimeout' = pollBackoff.current
            /\ config.backoff_min <= pollTimeout'
            /\ pollTimeout' <= config.backoff_max]_vars
    /\ [][ConnectLoopConnected => mqttBackoff'.current = config.backoff_min]_vars
    /\ [][PollFetched => pollBackoff'.current = config.backoff_min]_vars
    /\ [][mqttBackoff' # mqttBackoff => (ConnectFailed \/ ConnectLoopConnected)]_vars
    /\ [][pollBackoff' # pollBackoff => (PollFailed \/ PollFetched)]_vars
    /\ (connPc = "sleeping") ~> (connPc = "connecting" \/ stopEvent)
    /\ (pollPc = "waiting") ~> (pollPc = "fetching" \/ stopEvent)

\* a poll loop that has published before waits backoff_min after a failed
\* fetch, and its backoff has moved on to the next delay
C15_WaitsFloorDelay ==
    /\ ~stopEvent
    /\ pollPc = "waiting"
    /\ lastPayloads # << >>
    /\ pollTimeout = config.backoff_min
    /\ pollBackoff.current > config.backoff_min

C17_CooperativeStop ==
    /\ stopEvent ~> (connPc = "exited" /\ pollPc = "exited")
    /\ [][(~stopEvent /\ stopEvent') =>
            /\ connPc' = connPc
            /\ \/ pollPc' = pollPc
               \/ config.once /\ pollPc = "fetching" /\ pollPc' = "exited"]_vars
    /\ [][(connPc # "exited" /\ connPc' = "exited") =>
            (stopEvent /\ connPc \in {"start", "check", "waiting"})]_vars
    /\ [][(pollPc # "exited" /\ pollPc' = "exited") =>
            \/ stopEvent /\ pollPc \in {"start", "check"}
            \/ config.once /\ pollPc = "fetching"]_vars

\* a continuous run, stopped by a signal while connected, whose loops have
\* both exited
C17_LoopsExited ==
    /\ ~config.once
    /\ stopEvent
    /\ isConnected
    /\ connPc = "exited"
    /\ pollPc = "exited"
    /\ mainPc = "gather"

\* C18: after publish_telemetry on a bridge with an empty cache, for every
\* leaf of the telemetry that passes the field filter: a leaf whose value is
\* None is neither cached nor handed to the client when publish_missing is
\* off, and is published with the empty payload when it is on; a leaf with
\* any other value is published with the text of the value; a published
\* leaf is on the topic of the prefix, "/" and its path with "/" for ".",
\* cached with the configured qos and retain flag and handed to the client
\* if and only if the bridge is connected.  A leaf that does not pass the
\* filter is not published.
C18_MissingValues ==
    applyOut.op = "publish_telemetry" =>
        LET telemetry == applyIn.telemetry
            Leaf(path, value) == [path |-> path, value |-> value]
            Leaves ==
                UNION { IF telemetry[i].v.kind = "dict" /\ telemetry[i].v.items # << >>
                        THEN { Leaf(telemetry[i].k \o << "." >> \o telemetry[i].v.items[j].k,
                                    telemetry[i].v.items[j].v) :
                               j \in 1..Len(telemetry[i].v.items) }
                        ELSE { Leaf(telemetry[i].k, telemetry[i].v) } :
                        i \in 1..Len(telemetry) }
            filters == config.field_filters
            Passes(path) ==
                \/ filters = << >>
                \/ \E i \in 1..Len(filters) :
                        path = filters[i] \/ StartsWith(path, filters[i] \o << "." >>)
            Handed(topic) == \E i \in 1..Len(sent) : sent[i].topic = topic
            PublishedAs(topic, value) ==
                /\ DictHas(lastPayloads, topic)
                /\ DictGet(lastPayloads, topic).qos = config.qos
                /\ DictGet(lastPayloads, topic).retain = config.retain
                /\ CASE value.kind = "none" -> DictGet(lastPayloads, topic).payload = << >>
                     [] value.kind = "str" ->
                            DictGet(lastPayloads, topic).payload = value.s
                     [] value = IntV(42) ->
                            DictGet(lastPayloads, topic).payload = << "42" >>
                     [] OTHER -> DictGet(lastPayloads, topic).payload # << >>
                /\ Handed(topic) <=> isConnected
                /\ \A i \in 1..Len(sent) :
                        sent[i].topic = topic =>
                            sent[i] = [topic |-> topic,
                                       payload |-> DictGet(lastPayloads, topic).payload,
                                       qos |-> config.qos, retain |-> config.retain]
            Checked(leaf, topic) ==
                IF ~Passes(leaf.path)
                   \/ (leaf.value.kind = "none" /\ ~config.publish_missing)
                THEN ~DictHas(lastPayloads, topic) /\ ~Handed(topic)
                ELSE PublishedAs(topic, leaf.value)
        IN  \A leaf \in Leaves :
                Checked(leaf, TopicPrefix \o << "/" >> \o Replace(leaf.path, ".", "/"))

\* a connected bridge with publish_missing on has published a telemetry
\* without an uptime: the uptime topic got the empty payload
C18_MissingPublishedEmpty ==
    /\ applyOut.op = "publish_telemetry"
    /\ config.publish_missing
    /\ isConnected
    /\ applyIn.telemetry[1].v.items[1].v = NoneV
    /\ DictHas(delivered, TopicField(<< "device", "_", "state", "/", "uptime", "_", "s" >>))
    /\ DictGet(delivered, TopicField(<< "device", "_", "state", "/", "uptime", "_", "s" >>))
            .payload = << >>

\* C19: a set_field call submits at most one request; when the path is
\* empty, unknown, repeated, through a field that is not a message or at a
\* message, or the text does not convert or match the enum, it submits no
\* request, whatever the device would have answered: so for every call that
\* returns one of the applier's own errors, and for every call that fails
\* although the device accepts requests; a successful call has submitted
\* exactly one.
C19_NoRequestOnError ==
    applyOut.op = "set_field" =>
        /\ Len(deviceRequests) <= 1
        /\ applyOut.result.success => Len(deviceRequests) = 1
        /\ (~applyOut.result.success /\ applyIn.outcome.kind = "ok") =>
                deviceRequests = << >>
        /\ (~applyOut.result.success
             /\ applyOut.result.message[1][1] \in
                    { "Field path is empty",
                      "Field path does not target a writable DishConfig field",
                      "Unknown field: ", "Repeated field paths are not supported: ",
                      "Field is not a message: ", "Repeated fields are not supported: ",
                      "Invalid boolean value for ", "Invalid integer value for ",
                      "Invalid float value for ", "Invalid enum value for ",
                      "Ambiguous enum value for " }) =>
                deviceRequests = << >>
        /\ applyIn.path \in { << "bogus", ".", "field" >>, << "bogus" >>, << >>,
                               << ".", " " >>, << "dish", "_", "config" >>,
                               << "schedule" >>, << "schedule", ".", "bogus" >>,
                               << "schedule", ".", "days" >>,
                               << "networks", ".", "offset" >>,
                               << "snow", "_", "melt", "_", "mode", ".", "x" >> }
              => deviceRequests = << >>
        /\ (applyIn.path \in { << "swupdate", "_", "reboot", "_", "hour" >>,
                                << "power", "_", "save", "_", "mode" >>,
                                << "snow", "_", "melt", "_", "mode" >>,
                                << "schedule", ".", "offset" >>,
                                << "schedule", ".", "ratio" >> }
            /\ applyIn.text \in {<< "x" >>, << >>})
              => deviceRequests = << >>

\* set_field with a text that is no integer, for a device that is out of
\* reach, has returned the conversion error without a request
C19_ConversionErrorUnsent ==
    /\ applyOut.op = "set_field"
    /\ applyIn.path = << "swupdate", "_", "reboot", "_", "hour" >>
    /\ applyIn.text = << "x" >>
    /\ applyIn.outcome.kind = "rpc_error"
    /\ ~applyOut.result.success
    /\ applyOut.result.message[1][1] = "Invalid integer value for "
    /\ deviceRequests = << >>

\* C20: the request a set_field call submits holds the leaf, under its path
\* from the root with the "dish_config" head left out, with the converted
\* value, then the field "apply_" + the first part of the path set to true
\* if DishConfig has a field of that name, and nothing else; this is so for
\* the first call on a client and for a call that follows another, and a
\* call leaves the requests submitted before it as they were.
C20_OnlyPathAndFlag ==
    /\ [](applyOut.op = "set_field" /\ applyOut.result.success =>
            LET request == deviceRequests[Len(deviceRequests)]
                normalized == Strip(Replace(Strip(applyIn.path, {" "}), "/", "."), {"."})
                split == Split(normalized, ".")
                parts == IF split[1] = << "dish", "_", "config" >> THEN Tail(split)
                         ELSE split
                flag == << "apply", "_" >> \o parts[1]
                flagged == \E i \in 1..Len(MessageFields("DishConfig")) :
                              MessageFields("DishConfig")[i].name = flag
            IN  /\ Len(request) = IF flagged THEN 2 ELSE 1
                /\ request[1].path = parts
                /\ flagged => request[2] = [path |-> << flag >>, value |-> BoolV(TRUE)]
                /\ (parts = << Name_snow_melt_mode >> /\ applyIn.text = << "on" >>) =>
                        request = << [path |-> << Name_snow_melt_mode >>,
                                      value |-> IntV(1)],
                                     [path |-> << << "apply", "_", "snow", "_", "melt",
                                                     "_", "mode" >> >>,
                                      value |-> BoolV(TRUE)] >>
                /\ (parts = << << "schedule" >>, << "offset" >> >>
                     /\ applyIn.text = << "1" >>) =>
                        request = << [path |-> << << "schedule" >>, << "offset" >> >>,
                                      value |-> IntV(1)] >>)
    /\ [][\A i \in 1..Len(deviceRequests) :
            Len(deviceRequests') >= i /\ deviceRequests'[i] = deviceRequests[i]]_vars

\* a second call has set schedule.offset after a first call had set the
\* heater mode: the second request holds the offset alone
C20_SecondRequestFresh ==
    /\ applyOut.op = "set_field"
    /\ Len(deviceRequests) = 2
    /\ deviceRequests[1][1].path = << Name_snow_melt_mode >>
    /\ Len(deviceRequests[1]) = 2
    /\ deviceRequests[2] = << [path |-> << << "schedule" >>, << "offset" >> >>,
                               value |-> IntV(1)] >>

\* C21: for every enum and text given to _parse_enum, with the text
\* normalized (upper case, "-" and " " turned into "_"): if a name equals the
\* normalized text the result is that name's number, whatever names end in
\* "_" + the text; otherwise, if exactly one name ends in "_" + the
\* normalized text the result is its number, and if two or more do the
\* ambiguous-enum error is raised even when the text reads as a known number;
\* otherwise, if the text reads as an integer that is the number of a name
\* the result is that integer; otherwise the invalid-enum error is raised
\* and its text ends with all names of the enum joined by ", ".
C21_ResolutionOrder ==
    applyOut.op = "_parse_enum" =>
        LET enum == applyIn.enum
            normalized == Replace(Replace(Upper(applyIn.text), "-", "_"), " ", "_")
            equal == {i \in 1..Len(enum) : enum[i].name = normalized}
            ending == {i \in 1..Len(enum) : EndsWith(enum[i].name, << "_" >> \o normalized)}
            number == ParseInt(applyIn.text)
            known == number # None /\ \E i \in 1..Len(enum) : enum[i].number = number[1]
            result == applyOut.result
            RECURSIVE Listed(_)
            Listed(i) == IF i > Len(enum) THEN << >>
                         ELSE enum[i].name \o (IF i < Len(enum) THEN << ", " >> ELSE << >>)
                              \o Listed(i + 1)
        IN  CASE equal # {} ->
                    result.ok /\ \E i \in equal : result.value = enum[i].number
              [] equal = {} /\ Cardinality(ending) = 1 ->
                    result.ok /\ \E i \in ending : result.value = enum[i].number
              [] equal = {} /\ Cardinality(ending) > 1 ->
                    /\ ~result.ok
                    /\ result.exc.type = "StarlinkClientError"
                    /\ result.exc.text = << "Ambiguous enum value for ", "mode", ": " >>
                                          \o applyIn.text
              [] equal = {} /\ ending = {} /\ known ->
                    result = Return(number[1])
              [] OTHER ->
                    /\ ~result.ok
                    /\ result.exc.type = "StarlinkClientError"
                    /\ result.exc.text = << "Invalid enum value for ", "mode", ": " >>
                                          \o applyIn.text \o << ". Supported: " >>
                                          \o Listed(1)

\* _parse_enum has refused "1" as ambiguous for an enum with the names
\* SLOT_A_1 and SLOT_B_1, one of which has the number 1
C21_AmbiguousBeforeNumber ==
    /\ applyOut.op = "_parse_enum"
    /\ applyIn.text = << "1" >>
    /\ \E i, j \in 1..Len(applyIn.enum) :
            /\ applyIn.enum[i].name = << "SLOT", "_", "A", "_", "1" >>
            /\ applyIn.enum[j].name = << "SLOT", "_", "B", "_", "1" >>
            /\ applyIn.enum[j].number = 1
    /\ ~applyOut.result.ok
    /\ applyOut.result.exc.text[1] = "Ambiguous enum value for "

\* C22: in no step taken while stop_event is set does the poll loop begin a
\* call of get_telemetry or the connect loop a call of bridge.connect(), and
\* a poll loop that waits for its timeout when stop_event is set, or is
\* waiting when it becomes set, leaves the wait and exits without the
\* timeout having to run out.
C22_NoNewWorkAfterStop ==
    /\ [][stopEvent => /\ ~(pollPc # "fetching" /\ pollPc' = "fetching")
                       /\ ~(connPc # "connecting" /\ connPc' = "connecting")]_vars
    /\ (stopEvent /\ pollPc = "waiting") ~> (pollPc = "exited")

\* the stop signal has arrived while the poll loop waits for a timeout that
\* is not zero, and the connect loop has since returned to its loop test
C22_StopDuringWait ==
    /\ stopEvent
    /\ pollPc = "waiting"
    /\ pollTimeout > 0
    /\ connPc = "check"

\* C23: the connect loop is at one place at a time, so it has one call of
\* bridge.connect() outstanding at most, and only such a call is answered by
\* _on_connect; it begins a call of bridge.connect() only when the client is
\* not connected and _connected is clear; and it leaves the wait that
\* follows a successful connect for another round only when _disconnected
\* is set.
C23_OneAttempt ==
    /\ [][connPc # "connecting" /\ connPc' = "connecting" =>
            ~isConnected /\ ~connectedEv /\ ~stopEvent]_vars
    /\ [][connPc = "waiting" /\ connPc' = "check" => disconnectedEv]_vars
    /\ [][isConnected' /\ ~isConnected => connPc = "connecting" /\ connPc' = "connected"]_vars
    /\ [](connPc \in {"connected", "waiting"} /\ ~disconnectedEv /\ mainPc = "gather"
            => isConnected)

\* the connect loop is in its second call of bridge.connect(): the first
\* has succeeded and the connection was lost after it
C23_SecondAttempt ==
    /\ connPc = "connecting"
    /\ disconnectedEv
    /\ ~isConnected
    /\ ~stopEvent

C25_OnlySetTopicsDispatched ==
    /\ [][LET prefix == TopicPrefix \o << "/" >>
              Between(t) == Strip(SubSeq(t, Len(prefix) + 1, Len(t) - 2), {"/"})
              SetTopic(t) ==
                  /\ Len(t) >= Len(prefix) /\ SubSeq(t, 1, Len(prefix)) = prefix
                  /\ Len(t) >= 2 /\ t[Len(t) - 1] = "/" /\ t[Len(t)] = "set"
                  /\ Between(t) # << >>
              Dotted(p) == [i \in 1..Len(p) |-> IF p[i] = "/" THEN "." ELSE p[i]]
          IN  (config.field_filters = << >> /\ Len(commands') > Len(commands)) =>
                \E m \in InboundMessages :
                    /\ m.payload.ok
                    /\ SetTopic(m.topic)
                    /\ commands' = Append(commands,
                                          [field_path |-> Dotted(Between(m.topic)),
                                           payload |-> Strip(m.payload.text, {" "}),
                                           state |-> "pending", acks |-> 0])]_vars
    /\ [](LET topics == {lastPayloads[i].k : i \in 1..Len(lastPayloads)}
                          \cup {delivered[i].k : i \in 1..Len(delivered)}
                          \cup {sent[i].topic : i \in 1..Len(sent)}
          IN  \A t \in topics :
                ~(/\ Len(t) > Len(TopicPrefix) + 3
                  /\ SubSeq(t, 1, Len(TopicPrefix) + 1) = TopicPrefix \o << "/" >>
                  /\ SubSeq(t, Len(t) - 1, Len(t)) = << "/", "set" >>))
    /\ [](\A i \in 1..Len(commands) :
            /\ commands[i].field_path # << >>
            /\ commands[i].field_path \notin
                  {<< "status" >>, << "all" >>, << "set" >>,
                   Name_device_state \o << "." >> \o Name_uptime_s,
                   Name_dish_config \o << "." >> \o Name_snow_melt_mode
                      \o << ".", "ack" >>})

\* under the wildcard subscription the client has been handed a status, a
\* JSON summary, a telemetry leaf and an acknowledgement, and the only
\* command task is the one whose acknowledgement it is
C25_OwnMessagesUndispatched ==
    /\ subscribed = << TopicWildcard >>
    /\ isConnected
    /\ DictHas(delivered, TopicStatus)
    /\ DictHas(delivered, TopicAllFields)
    /\ DictHas(delivered, TopicField(Name_device_state \o << "/" >> \o Name_uptime_s))
    /\ DictHas(delivered,
               TopicFieldAck(Name_dish_config \o << "/" >> \o Name_snow_melt_mode))
    /\ Len(commands) = 1
    /\ commands[1].state = "done"
    /\ sent = << >>

\* C26: with several _handle_command tasks in flight, whatever the order of
\* their steps: the call a task makes is set_field with the field path and
\* the text of its own message, and what the task keeps is the result of
\* that call; the step that ends a task publishes one acknowledgement, on
\* the ack topic of the task's own field path, whose payload is made of that
\* field path and of the result the task has kept, in which "requested" is
\* the task's own text; and no step of one task changes another task.
C26_AckOfOwnCommand ==
    /\ [][\A i \in 1..Len(commands) :
            (commands[i].state = "pending" /\ commands'[i].state = "applying") =>
                /\ commands'[i].field_path = commands[i].field_path
                /\ commands'[i].payload = commands[i].payload
                /\ \E o \in CommandOutcomes :
                      commands'[i].result =
                          SetFieldSync(commands[i].field_path, commands[i].payload, o).result
                /\ commands'[i].result.requested = commands[i].payload
                /\ \A j \in (1..Len(commands)) \ {i} : commands'[j] = commands[j]]_vars
    /\ [][\A i \in 1..Len(commands) :
            (commands[i].state = "applying" /\ commands'[i].state = "done") =>
                /\ isConnected
                /\ sent' = << Msg(TopicPrefix \o << "/" >>
                                    \o Replace(commands[i].field_path, ".", "/")
                                    \o << "/", "ack" >>,
                                  AckPayload(commands[i].field_path, commands[i].result),
                                  config.qos, config.retain) >>
                /\ commands'[i].result = commands[i].result
                /\ commands'[i].acks = 1
                /\ \A j \in (1..Len(commands)) \ {i} : commands'[j] = commands[j]]_vars
    /\ [](\A i \in 1..Len(commands) :
            commands[i].state \in {"applying", "done"} =>
                /\ commands[i].result.requested = commands[i].payload
                /\ commands[i].payload = << "x" >> => ~commands[i].result.success
                /\ commands[i].result.applied # None =>
                        commands[i].payload \in {<< "on" >>, << "AUTO" >>})

\* two commands for the heater mode with different texts were in flight
\* together and the one that came first was acknowledged last: both are
\* acknowledged, the first with success and the second with the error of the
\* device, and the ack topic holds the acknowledgement of the first
C26_CompletedOutOfOrder ==
    /\ Len(commands) = 2
    /\ commands[1].state = "done"
    /\ commands[2].state = "done"
    /\ commands[1].field_path = commands[2].field_path
    /\ commands[1].payload = << "on" >>
    /\ commands[2].payload = << "AUTO" >>
    /\ commands[1].result.success
    /\ ~commands[2].result.success
    /\ Len(deviceRequests) = 2
    /\ deviceRequests[1][1].value = IntV(0)
    /\ DictGet(lastPayloads,
               TopicFieldAck(Name_dish_config \o << "/" >> \o Name_snow_melt_mode)).payload
          = AckPayload(commands[1].field_path, commands[1].result)

====
